---- MODULE Spec2Model ----
(***************************************************************************)
(* Model of the exam engine of TOEFL_simulator_verraco:                    *)
(*   services/grader.py          scoring and the scaled score              *)
(*   services/shuffle_service.py seeded shuffle of the choices             *)
(*   services/exam_services.py   exam set assembly and the attempt store   *)
(*   services/question_repo.py   the questions as the templates take them  *)
(*   routes/exam_routes.py       the handlers that save, display, submit   *)
(*                                                                         *)
(* Pure functions are operators, applied by an action of a specification   *)
(* whose Init draws the inputs (SpecScale, SpecGrade, SpecShuffle).        *)
(* Spec is the attempt store with one action per request handler;         *)
(* SpecAttempt and SpecSave start from the store as POST /start left it    *)
(* and take the requests on that one attempt.                              *)
(***************************************************************************)
EXTENDS Integers, Sequences, FiniteSets, TLC

VARIABLES
    ATTEMPT_COUNTER,  \* core.store.ATTEMPT_COUNTER
    ATTEMPTS,         \* core.store.ATTEMPTS: attempt id -> attempt record
    disk,             \* the data directory: file name -> parsed content
    _JSON_CACHE,      \* exam_services._JSON_CACHE: file name -> payload
    req,              \* the last request handled and what it answered
    pre,              \* ATTEMPTS as it was before the last request
    shown,            \* attempt id -> the views the exam handler displayed, in order
    call,             \* the inputs of the pure function under check
    ret,              \* << >> before the call, << result >> after it
    ret2,             \* the result of a second call with the same inputs
    globalRng,        \* state of the process-wide generator of module random
    heap              \* the objects of SpecHeap: address -> dict

vars == <<ATTEMPT_COUNTER, ATTEMPTS, disk, _JSON_CACHE, req, pre, shown, call, ret, ret2, globalRng, heap>>

\* Python's None
None == "None"

Max(a, b) == IF a >= b THEN a ELSE b
Min(a, b) == IF a <= b THEN a ELSE b
Abs(a) == IF a >= 0 THEN a ELSE 0 - a

(***************************************************************************)
(* grader.py: scale_reading_score                                          *)
(***************************************************************************)

\* the total the table is calibrated for (grader.py:172)
TableTotal == 11
\* the top of the scaled range (grader.py:188, 207)
MaxScaled == 30

\* a table that scales the raw score proportionally (raw 4 of 11 -> 10)
table_proportional == [r \in 0..TableTotal |-> (r * MaxScaled) \div TableTotal]

\* a table with a dip: raw 6 scores below raw 5, and the top is 29
table_dip ==
    [r \in 0..TableTotal |->
        CASE r = 11 -> 29 [] r = 10 -> 29 [] r = 9 -> 28 [] r = 8 -> 27
          [] r = 7 -> 26 [] r = 6 -> 22 [] r = 5 -> 23 [] r = 4 -> 20
          [] r = 3 -> 16 [] r = 2 -> 12 [] r = 1 -> 7 [] OTHER -> 0]

\* the dict literal of grader.py:173-186 (and again 202-205)
table ==
    [r \in 0..TableTotal |->
        CASE r = 11 -> 30 [] r = 10 -> 29 [] r = 9 -> 28 [] r = 8 -> 27
          [] r = 7 -> 26 [] r = 6 -> 25 [] r = 5 -> 23 [] r = 4 -> 20
          [] r = 3 -> 16 [] r = 2 -> 12 [] r = 1 -> 7 [] OTHER -> 0]

\* table.get(k, 0)
table_get(k) == IF k \in DOMAIN table THEN table[k] ELSE 0

\* int(round(num / den)) for num >= 0, den > 0: Python 3 rounds a tie to the
\* even neighbour
round_half_even(num, den) ==
    LET q == num \div den
        r == num % den
    IN  IF 2 * r < den THEN q
        ELSE IF 2 * r > den THEN q + 1
        ELSE IF q % 2 = 0 THEN q ELSE q + 1

\* a rounding that truncates (what int() alone would do)
round_truncating(num, den) == num \div den

\* int(round(sp * 11.0 / float(total_points)))
py_round(num, den) == round_half_even(num, den)

scale_reading_score(score_points, total_points) ==
    IF total_points = TableTotal
    THEN Max(0, Min(MaxScaled, table_get(score_points)))
    ELSE IF total_points <= 0 THEN 0
    ELSE LET sp == Max(0, Min(score_points, total_points))
             eq_raw_11 == py_round(sp * TableTotal, total_points)
         IN  Max(0, Min(MaxScaled, table_get(eq_raw_11)))

\* bounds of the inputs of SpecScale
MaxTotal == 22
RawSlack == 2

ScaleInputs ==
    [raw : (0 - RawSlack)..(MaxTotal + RawSlack), total : (0 - RawSlack)..MaxTotal]

Idle ==
    /\ ATTEMPT_COUNTER = 0
    /\ ATTEMPTS = << >>
    /\ disk = << >>
    /\ _JSON_CACHE = << >>
    /\ req = [op |-> "none"]
    /\ pre = << >>
    /\ shown = << >>
    /\ globalRng = 0
    /\ heap = << >>

InitScale ==
    /\ Idle
    /\ call \in ScaleInputs
    /\ ret = << >>
    /\ ret2 = << >>

ScaleCall ==
    /\ ret = << >>
    /\ ret' = <<scale_reading_score(call.raw, call.total)>>
    /\ UNCHANGED <<ATTEMPT_COUNTER, ATTEMPTS, disk, _JSON_CACHE, req, pre, shown, call, ret2, globalRng, heap>>

NextScale == ScaleCall

SpecScale == InitScale /\ [][NextScale]_vars

\* C9: for a total of 11 every raw score 0..11 is mapped through the fixed
\* table (11->30, 10->29, 9->28, 8->27, 7->26, 6->25, 5->23, 4->20, 3->16,
\* 2->12, 1->7, 0->0); a raw score of at least 4 gives at least 20, raw 11
\* gives 30 and raw 0 gives 0.
C9_ScaleTable11 ==
    (ret # << >> /\ call.total = 11 /\ call.raw \in 0..11) =>
        /\ ret[1] = (CASE call.raw = 11 -> 30 [] call.raw = 10 -> 29
                       [] call.raw = 9 -> 28 [] call.raw = 8 -> 27
                       [] call.raw = 7 -> 26 [] call.raw = 6 -> 25
                       [] call.raw = 5 -> 23 [] call.raw = 4 -> 20
                       [] call.raw = 3 -> 16 [] call.raw = 2 -> 12
                       [] call.raw = 1 -> 7 [] OTHER -> 0)
        /\ (call.raw >= 4 => ret[1] >= 20)
        /\ (call.raw = 11 => ret[1] = 30)
        /\ (call.raw = 0 => ret[1] = 0)

C9_Witness ==
    ret # << >> /\ call.total = 11 /\ call.raw = 4 /\ ret[1] = 20

\* C10: the result is an integer in 0..30 for every raw score and total; for
\* a positive total other than 11 it is the table value at an integer nearest
\* to clamp(raw, 0, total) * 11 / total.
C10_ScaleRangeAndRescale ==
    ret # << >> =>
        /\ ret[1] \in 0..30
        /\ (call.total > 0 /\ call.total # 11) =>
              LET sp == Max(0, Min(call.raw, call.total))
              IN  \E e \in 0..11 :
                     /\ 2 * Abs(e * call.total - 11 * sp) <= call.total
                     /\ ret[1] = table[e]

\* a rescaled case: 5 of 22 is 2.5 of 11, a tie between 2 and 3
C10_Witness ==
    /\ ret # << >>
    /\ call.total = 22 /\ call.raw = 5 /\ ret[1] \in {12, 16}

\* C30: for a positive total and a raw score in 0..total the scaled score
\* is at least the scaled score of every lower raw score in 0..total, it is
\* 0 for raw 0 and 30 for raw equal to the total
C30_ScaleMonotone ==
    (ret # << >> /\ call.total > 0 /\ call.raw \in 0..call.total) =>
        /\ \A lower \in 0..call.raw :
              scale_reading_score(lower, call.total) <= ret[1]
        /\ (call.raw = 0 => ret[1] = 0)
        /\ (call.raw = call.total => ret[1] = MaxScaled)

\* the one point of a single question: 30
C30_Witness ==
    ret # << >> /\ call.total = 1 /\ call.raw = 1 /\ ret[1] = 30

(***************************************************************************)
(* grader.py: grade and the three scoring policies                         *)
(*                                                                         *)
(* A value of a question field or of a form field is a record              *)
(*   [kind |-> "none"]                   the field is absent or None       *)
(*   [kind |-> "str",  s |-> string]     a str                             *)
(*   [kind |-> "list", items |-> seq]    a list of str or None             *)
(* with the unused field at its default, so that values compare.           *)
(***************************************************************************)

NoneVal == [kind |-> "none", s |-> "", items |-> << >>]
StrVal(x) == [kind |-> "str", s |-> x, items |-> << >>]
ListVal(xs) == [kind |-> "list", s |-> "", items |-> xs]

\* Python truthiness of a field value (None, "" and [] are falsy)
Truthy(v) ==
    CASE v.kind = "none" -> FALSE
      [] v.kind = "str" -> v.s # ""
      [] OTHER -> v.items # << >>

\* x or y
PyOr(x, y) == IF Truthy(x) THEN x ELSE y

Range(xs) == {xs[i] : i \in DOMAIN xs}

\* str(a).strip().upper() on the strings the inputs are drawn from
strip_upper(a) ==
    CASE a = "a" -> "A" [] a = "b" -> "B" [] a = "c" -> "C" [] a = "e" -> "E"
      [] a = " B" -> "B" [] a = " b " -> "B" [] a = " " -> ""
      [] a = "ace" -> "ACE" [] a = " Summary" -> "SUMMARY"
      [] a = "summary" -> "SUMMARY" [] a = "single" -> "SINGLE"
      [] a = "multi" -> "MULTI" [] a = "Single" -> "SINGLE"
      [] OTHER -> a

\* str.strip().lower() on the type tags the inputs are drawn from
strip_lower(a) ==
    CASE a = " Summary" -> "summary" [] a = "Single" -> "single"
      [] a = "SUMMARY" -> "summary"
      [] OTHER -> a

\* list(s) when re.fullmatch(r"[A-F]{2,}", s), on the strings the inputs are
\* drawn from; << >> when s does not match
letters_of(s) ==
    CASE s = "ACE" -> <<"A", "C", "E">>
      [] s = "AC" -> <<"A", "C">>
      [] OTHER -> << >>

\* the loop of grader.py:58-65 and 96-102: drop None, strip and upper-case,
\* drop what is empty; the order and the repetitions are kept
RECURSIVE clean_list(_)
clean_list(raw) ==
    IF raw = << >> THEN << >>
    ELSE LET a == Head(raw)
             rest == clean_list(Tail(raw))
         IN  IF a = None THEN rest
             ELSE IF strip_upper(a) = "" THEN rest
             ELSE <<strip_upper(a)>> \o rest

\* the same loop followed by a removal of the repetitions (first occurrence kept)
RECURSIVE dedupe(_)
dedupe(xs) ==
    IF xs = << >> THEN << >>
    ELSE LET init == dedupe(SubSeq(xs, 1, Len(xs) - 1))
             last == xs[Len(xs)]
         IN  IF last \in Range(init) THEN init ELSE Append(init, last)

\* form.getlist(key) of _FormAdapter, or form.get(key, []) of a dict: the
\* form maps a question id to the value of its field ans_<id>
form_raw_list(form, qid) ==
    IF qid \notin DOMAIN form THEN << >>
    ELSE LET v == form[qid]
         IN  CASE v.kind = "list" -> v.items
               [] v.kind = "str" -> <<v.s>>
               [] OTHER -> <<None>>

_get_form_list(form, qid) == clean_list(form_raw_list(form, qid))

\* _normalize_correct that falls back to the first letter when the question
\* records no answer
_normalize_correct_default_a(q) ==
    LET raw0 == q.correct
        raw == IF raw0.kind = "none" THEN PyOr(q.correct_letters, q.correct_letter)
               ELSE raw0
        raw_list ==
            CASE raw.kind = "none" -> << >>
              [] raw.kind = "str" ->
                    IF letters_of(strip_upper(raw.s)) # << >>
                    THEN letters_of(strip_upper(raw.s))
                    ELSE <<strip_upper(raw.s)>>
              [] OTHER -> raw.items
    IN  IF clean_list(raw_list) = << >> THEN {"A"} ELSE Range(clean_list(raw_list))

\* sorted(list(set(out))): the result is used as a set, and through
\* correct[0] only when it has one element
_normalize_correct(q) ==
    LET raw0 == q.correct
        raw == IF raw0.kind = "none" THEN PyOr(q.correct_letters, q.correct_letter)
               ELSE raw0
        raw_list ==
            CASE raw.kind = "none" -> << >>
              [] raw.kind = "str" ->
                    IF letters_of(strip_upper(raw.s)) # << >>
                    THEN letters_of(strip_upper(raw.s))
                    ELSE <<strip_upper(raw.s)>>
              [] OTHER -> raw.items
    IN  Range(clean_list(raw_list))

\* single-choice scoring that looks for the correct letter among the answers
_score_single_contains(user, correct) ==
    IF correct = {} THEN [pts |-> 0, max_pts |-> 1, ok |-> FALSE]
    ELSE LET ok == \E i \in DOMAIN user : user[i] \in correct
         IN  [pts |-> IF ok THEN 1 ELSE 0, max_pts |-> 1, ok |-> ok]

_score_single(user, correct) ==
    IF correct = {} THEN [pts |-> 0, max_pts |-> 1, ok |-> FALSE]
    ELSE IF Len(user) # 1 THEN [pts |-> 0, max_pts |-> 1, ok |-> FALSE]
    ELSE LET ok == IF Cardinality(correct) = 1
                   THEN user[1] = (CHOOSE c \in correct : TRUE)
                   ELSE user[1] \in correct
         IN  [pts |-> IF ok THEN 1 ELSE 0, max_pts |-> 1, ok |-> ok]

_score_multi_exact(user, correct) ==
    IF correct = {} THEN [pts |-> 0, max_pts |-> 1, ok |-> FALSE]
    ELSE LET ok == Range(user) = correct /\ Len(user) > 0
         IN  [pts |-> IF ok THEN 1 ELSE 0, max_pts |-> 1, ok |-> ok]

\* the partial-credit policy: 3 for the exact set, 2 for a non-empty proper
\* subset without a wrong letter
_score_summary_partial(user, correct) ==
    IF correct = {} THEN [pts |-> 0, max_pts |-> 3, ok |-> FALSE]
    ELSE LET u_set == Range(user)
         IN  IF u_set = {} THEN [pts |-> 0, max_pts |-> 3, ok |-> FALSE]
             ELSE IF u_set = correct THEN [pts |-> 3, max_pts |-> 3, ok |-> TRUE]
             ELSE IF u_set \subseteq correct THEN [pts |-> 2, max_pts |-> 3, ok |-> FALSE]
             ELSE [pts |-> 0, max_pts |-> 3, ok |-> FALSE]

\* a blend of the two summary policies: 2 for the exact set, 1 for a
\* non-empty proper subset
_score_summary_blended(user, correct) ==
    IF correct = {} THEN [pts |-> 0, max_pts |-> 2, ok |-> FALSE]
    ELSE LET u_set == Range(user)
         IN  IF u_set = {} THEN [pts |-> 0, max_pts |-> 2, ok |-> FALSE]
             ELSE IF u_set = correct THEN [pts |-> 2, max_pts |-> 2, ok |-> TRUE]
             ELSE IF u_set \subseteq correct THEN [pts |-> 1, max_pts |-> 2, ok |-> FALSE]
             ELSE [pts |-> 0, max_pts |-> 2, ok |-> FALSE]

_score_summary_q10(user, correct) ==
    IF correct = {} THEN [pts |-> 0, max_pts |-> 2, ok |-> FALSE]
    ELSE LET u_set == Range(user)
         IN  IF u_set = {} THEN [pts |-> 0, max_pts |-> 2, ok |-> FALSE]
             ELSE LET ok == (u_set = correct)
                  IN  [pts |-> IF ok THEN 2 ELSE 0, max_pts |-> 2, ok |-> ok]

\* (q.get("type") or "single").strip().lower()
question_type(q) ==
    IF q.type = None \/ q.type = "" THEN "single" ELSE strip_lower(q.type)

\* grade_one that counts every question as one point
grade_one_unit_max(q, form) ==
    LET qtype == question_type(q)
        user_ans == _get_form_list(form, q.id)
        correct_ans == _normalize_correct(q)
        r == CASE qtype = "summary" -> _score_summary_q10(user_ans, correct_ans)
               [] qtype = "single" -> _score_single(user_ans, correct_ans)
               [] OTHER -> _score_multi_exact(user_ans, correct_ans)
    IN  [qid |-> q.id, qtype |-> qtype, user |-> Range(user_ans),
         correct |-> correct_ans, ok |-> r.ok, points |-> IF r.ok THEN 1 ELSE 0,
         max_points |-> 1]

\* one turn of the loop of grade: the feedback entry of question q
grade_one(q, form) ==
    LET qtype == question_type(q)
        user_ans == _get_form_list(form, q.id)
        correct_ans == _normalize_correct(q)
        r == CASE qtype = "summary" -> _score_summary_q10(user_ans, correct_ans)
               [] qtype = "single" -> _score_single(user_ans, correct_ans)
               [] OTHER -> _score_multi_exact(user_ans, correct_ans)
    IN  [qid |-> q.id, qtype |-> qtype, user |-> Range(user_ans),
         correct |-> correct_ans, ok |-> r.ok, points |-> r.pts,
         max_points |-> r.max_pts]

RECURSIVE grade(_, _)
grade(questions, form) ==
    IF questions = << >>
    THEN [score_points |-> 0, total_points |-> 0, feedback |-> << >>]
    ELSE LET n == Len(questions)
             g == grade(SubSeq(questions, 1, n - 1), form)
             fb == grade_one(questions[n], form)
         IN  [score_points |-> g.score_points + fb.points,
              total_points |-> g.total_points + fb.max_points,
              feedback |-> Append(g.feedback, fb)]

\* the longest list of answers submitted for one question in SpecGrade
MaxPicks == 3

AnswerTokens == {"A", "B", "C", "E", "b", ""}

RECURSIVE SeqsUpTo(_, _)
SeqsUpTo(S, n) ==
    IF n = 0 THEN {<< >>}
    ELSE LET shorter == SeqsUpTo(S, n - 1)
         IN  shorter \cup {Append(xs, x) : xs \in {ys \in shorter : Len(ys) = n - 1}, x \in S}

\* the value of the form field of the question: a list, one str, or None
FormValues ==
    {ListVal(xs) : xs \in SeqsUpTo(AnswerTokens, MaxPicks)}
        \cup {StrVal("B"), StrVal(" b "), NoneVal, ListVal(<<None, "B">>)}

TypeTags == {"single", "multi", "summary", None, " Summary"}

CorrectValues ==
    {ListVal(<<"B">>), ListVal(<<"A", "C", "E">>), ListVal(<<"b">>),
     ListVal(<< >>), StrVal("ace"), NoneVal}

GradeQuestions ==
    {[id |-> "q1", type |-> t, correct |-> c, correct_letters |-> NoneVal,
      correct_letter |-> cl] :
        t \in TypeTags, c \in CorrectValues, cl \in {NoneVal, StrVal("B")}}

\* a form without the field, and the forms with it
GradeForms == {<< >>} \cup {("q1" :> v) : v \in FormValues}

InitGrade ==
    /\ Idle
    /\ call \in [questions : {<<q>> : q \in GradeQuestions}, form : GradeForms]
    /\ ret = << >>
    /\ ret2 = << >>

GradeCall ==
    /\ ret = << >>
    /\ ret' = <<grade(call.questions, call.form)>>
    /\ UNCHANGED <<ATTEMPT_COUNTER, ATTEMPTS, disk, _JSON_CACHE, req, pre, shown, call, ret2, globalRng, heap>>

NextGrade == GradeCall

SpecGrade == InitGrade /\ [][NextGrade]_vars

\* what the checks of SpecGrade read: the question, its answers as submitted
\* (blank fields are no answer; letters compare without case), the feedback
TheQuestion == call.questions[1]
TheFeedback == ret[1].feedback[1]
Submitted == clean_list(form_raw_list(call.form, TheQuestion.id))
GradedAs(t) == ret # << >> /\ question_type(TheQuestion) = t

\* C6: a single question with one correct letter scores 1 of 1 iff exactly
\* one answer was submitted and it is the correct letter; otherwise 0 of 1.
C6_SingleScoring ==
    \A c \in {"A", "B", "C", "E"} :
        (GradedAs("single") /\ _normalize_correct(TheQuestion) = {c}) =>
            /\ TheFeedback.max_points = 1
            /\ ret[1].total_points = 1
            /\ TheFeedback.points \in {0, 1}
            /\ ret[1].score_points = TheFeedback.points
            /\ (TheFeedback.points = 1) <=> (Len(Submitted) = 1 /\ Submitted[1] = c)

\* two selections that contain the correct letter score 0
C6_Witness ==
    /\ GradedAs("single")
    /\ TheQuestion.correct = ListVal(<<"B">>)
    /\ call.form = ("q1" :> ListVal(<<"A", "B">>))
    /\ TheFeedback.points = 0 /\ TheFeedback.max_points = 1

\* C7: grade gives the same points and ok flag for a submission and for the
\* same submission without its repetitions (letters compared without case).
C7_DedupeBeforeCompare ==
    ret # << >> =>
        LET canon == ("q1" :> ListVal(dedupe(Submitted)))
            g == grade(call.questions, canon).feedback[1]
        IN  /\ TheFeedback.points = g.points
            /\ TheFeedback.ok = g.ok

\* C8 as claimed: a summary question is graded out of 3 with partial credit
C8_SummaryPartialCredit ==
    (GradedAs("summary") /\ _normalize_correct(TheQuestion) # {}) =>
        LET u == Range(Submitted)
            c == _normalize_correct(TheQuestion)
        IN  /\ TheFeedback.max_points = 3
            /\ TheFeedback.points =
                  (IF u = c THEN 3
                   ELSE IF u # {} /\ u \subseteq c THEN 2
                   ELSE 0)

\* C8 as amended: a summary question is graded out of 2 without partial
\* credit: 2 points when the non-empty submitted set is the correct set, 0
\* for a proper subset, for any wrong letter and for no selection.
C8_SummaryBinary ==
    (GradedAs("summary") /\ _normalize_correct(TheQuestion) # {}) =>
        LET u == Range(Submitted)
            c == _normalize_correct(TheQuestion)
        IN  /\ TheFeedback.max_points = 2
            /\ ret[1].total_points = 2
            /\ (u = c) => (TheFeedback.points = 2 /\ TheFeedback.ok)
            /\ (u # c) => (TheFeedback.points = 0 /\ ~TheFeedback.ok)
            /\ (c = {"A", "C", "E"} /\ u = {"A", "C"}) => TheFeedback.points = 0
            /\ (c = {"A", "C", "E"} /\ u = {"A", "B"}) => TheFeedback.points = 0

\* correct {A,C,E}, submitted {A,C}: 0 of 2
C8_Witness ==
    /\ GradedAs("summary")
    /\ TheQuestion.correct = ListVal(<<"A", "C", "E">>)
    /\ call.form = ("q1" :> ListVal(<<"A", "C">>))
    /\ TheFeedback.points = 0 /\ TheFeedback.max_points = 2

\* the longest list of questions graded in SpecGradeList
MaxGradeQuestions == 2

GradeListIds == {"q1", "q2"}

\* questions of every type with one correct letter, three, or none recorded
GradeListQuestions ==
    {[id |-> i, type |-> t, correct |-> c, correct_letters |-> NoneVal,
      correct_letter |-> NoneVal] :
        i \in GradeListIds, t \in {"single", "multi", "summary"},
        c \in {ListVal(<<"B">>), ListVal(<<"A", "C", "E">>), NoneVal}}

\* for each id no field, or one of three selections
GradeListForms ==
    UNION {[ids -> {ListVal(<<"B">>), ListVal(<<"A", "C", "E">>), ListVal(<<"A", "C">>)}] :
              ids \in SUBSET GradeListIds}

InitGradeList ==
    /\ Idle
    /\ call \in [questions : SeqsUpTo(GradeListQuestions, MaxGradeQuestions),
                 form : GradeListForms]
    /\ ret = << >>
    /\ ret2 = << >>

SpecGradeList == InitGradeList /\ [][NextGrade]_vars

\* the maximum achievable points of a question
MaxPointsOf(q) == IF question_type(q) = "summary" THEN 2 ELSE 1

RECURSIVE SumMaxPoints(_)
SumMaxPoints(questions) ==
    IF questions = << >> THEN 0
    ELSE MaxPointsOf(Head(questions)) + SumMaxPoints(Tail(questions))

RECURSIVE SumPoints(_)
SumPoints(feedback) ==
    IF feedback = << >> THEN 0
    ELSE Head(feedback).points + SumPoints(Tail(feedback))

\* C16: the total is the sum of the questions' maximum points (1 for single
\* and multi, 2 for summary), the score is the sum of the points of the
\* feedback, the feedback has one entry per question in question order, and
\* 0 <= score <= total
C16_TotalsAreSums ==
    ret # << >> =>
        /\ ret[1].total_points = SumMaxPoints(call.questions)
        /\ ret[1].score_points = SumPoints(ret[1].feedback)
        /\ Len(ret[1].feedback) = Len(call.questions)
        /\ \A i \in DOMAIN call.questions :
              /\ ret[1].feedback[i].qid = call.questions[i].id
              /\ ret[1].feedback[i].qtype = question_type(call.questions[i])
              /\ ret[1].feedback[i].max_points = MaxPointsOf(call.questions[i])
              /\ ret[1].feedback[i].points \in 0..MaxPointsOf(call.questions[i])
        /\ 0 <= ret[1].score_points
        /\ ret[1].score_points <= ret[1].total_points

\* a summary question answered exactly and a single question answered
\* wrongly: 2 of 3 points for two questions
C16_Witness ==
    /\ ret # << >>
    /\ Len(call.questions) = 2
    /\ question_type(call.questions[1]) = "summary"
    /\ question_type(call.questions[2]) = "single"
    /\ call.questions[1].id # call.questions[2].id
    /\ ret[1].total_points = 3
    /\ ret[1].score_points = 2
    /\ ret[1].feedback[2].points = 0

\* the question records no correct answer: no correct, correct_letters or
\* correct_letter, or a correct list without a non-blank item
NoRecordedCorrect(q) ==
    \/ q.correct.kind = "none" /\ ~Truthy(q.correct_letters) /\ ~Truthy(q.correct_letter)
    \/ /\ q.correct.kind = "list"
       /\ \A i \in DOMAIN q.correct.items :
             q.correct.items[i] = None \/ strip_upper(q.correct.items[i]) = ""

\* C17: a question without a recorded correct answer scores 0 points and
\* is not ok whatever its type and whatever was submitted, and its maximum
\* points (2 for summary, else 1) are in the total
C17_NoCorrectScoresZero ==
    (ret # << >> /\ NoRecordedCorrect(TheQuestion)) =>
        /\ TheFeedback.points = 0
        /\ ~TheFeedback.ok
        /\ ret[1].score_points = 0
        /\ TheFeedback.max_points = MaxPointsOf(TheQuestion)
        /\ ret[1].total_points = MaxPointsOf(TheQuestion)

\* a summary question without a correct answer, answered "A": 0 of 2
C17_Witness ==
    /\ GradedAs("summary")
    /\ NoRecordedCorrect(TheQuestion)
    /\ call.form = ("q1" :> ListVal(<<"A">>))
    /\ TheFeedback.points = 0 /\ ~TheFeedback.ok
    /\ ret[1].total_points = 2

\* C18: every summary question is graded by one policy: max_points is 2 and
\* the points are 2 when the submitted set is not empty and is the correct
\* set, and 0 otherwise, never a value in between
C18_SummaryAllOrNothing ==
    GradedAs("summary") =>
        LET u == Range(Submitted)
            c == _normalize_correct(TheQuestion)
        IN  /\ TheFeedback.max_points = 2
            /\ TheFeedback.points \in {0, 2}
            /\ TheFeedback.points = 2 <=> (u # {} /\ u = c)
            /\ TheFeedback.ok <=> TheFeedback.points = 2

\* the three correct letters submitted in another order: 2 of 2
C18_Witness ==
    /\ GradedAs("summary")
    /\ TheQuestion.correct = ListVal(<<"A", "C", "E">>)
    /\ call.form = ("q1" :> ListVal(<<"E", "A", "C">>))
    /\ TheFeedback.points = 2 /\ TheFeedback.max_points = 2

(***************************************************************************)
(* shuffle_service.py: shuffle_exam_set                                    *)
(*                                                                         *)
(* An exam question is a record with the keys of exam_services.py:327-336: *)
(* id, type, prompt, choices (a list of <<letter, text>> pairs), correct   *)
(* (a field value, see above), correct_index, correct_letter, and meta (a  *)
(* function from key to value; << >> is the empty or absent dict).         *)
(*                                                                         *)
(* The generator is abstract. Its state is the number whose mixed-radix    *)
(* digits are the draws still to come: randbelow(n) returns state % n and  *)
(* leaves state \div n. random.Random(seed) starts it at the seed, so each *)
(* seed fixes the whole stream and every stream of draws has a seed.       *)
(***************************************************************************)

\* chr(ord("A") + i), i from 0
LABELS == <<"A", "B", "C", "D", "E", "F">>

\* a generator that is the process-wide one of module random
rng_shared(seed) == globalRng

\* random.Random(seed)
rng_seeded(seed) == seed

randbelow_value(state, n) == state % n
randbelow_next(state, n) == state \div n

Swap(xs, i, j) == [xs EXCEPT ![i] = xs[j], ![j] = xs[i]]

\* random.shuffle: for i in reversed(range(1, len(x))): j = randbelow(i + 1);
\* x[i], x[j] = x[j], x[i]. Positions are from 1 here, so i runs from
\* Len(x) down to 2 and j is randbelow(i) + 1.
RECURSIVE rng_shuffle_from(_, _, _)
rng_shuffle_from(xs, state, i) ==
    IF i < 2 THEN [xs |-> xs, state |-> state]
    ELSE LET j == randbelow_value(state, i) + 1
         IN  rng_shuffle_from(Swap(xs, i, j), randbelow_next(state, i), i - 1)

rng_shuffle(xs, state) == rng_shuffle_from(xs, state, Len(xs))

\* a relabelling that starts at B
_relabel_choices_from_b(choice_texts) ==
    [i \in 1..Len(choice_texts) |-> <<LABELS[i + 1], choice_texts[i]>>]

_relabel_choices(choice_texts) ==
    [i \in 1..Len(choice_texts) |-> <<LABELS[i], choice_texts[i]>>]

\* a dict built from pairs <<key, value>> in order: the last pair of a key wins
DictHas(pairs, k) == \E i \in DOMAIN pairs : pairs[i][1] = k
DictGet(pairs, k) ==
    LET last == CHOOSE i \in DOMAIN pairs :
                    /\ pairs[i][1] = k
                    /\ \A j \in DOMAIN pairs : pairs[j][1] = k => j <= i
    IN  pairs[last][2]

\* [d[k] for k in keys if k in d]
RECURSIVE LookupAll(_, _)
LookupAll(pairs, keys) ==
    IF keys = << >> THEN << >>
    ELSE LET rest == LookupAll(pairs, Tail(keys))
         IN  IF DictHas(pairs, Head(keys))
             THEN <<DictGet(pairs, Head(keys))>> \o rest
             ELSE rest

\* the list q.get("correct", []) iterates over
correct_list(q) == IF q.correct.kind = "list" THEN q.correct.items ELSE << >>

\* the body of the loop with the correct letters left as they were
shuffle_question_stale(q, state) ==
    IF q.choices = << >> \/ correct_list(q) = << >>
    THEN [q |-> q, state |-> state]
    ELSE LET texts == [i \in DOMAIN q.choices |-> q.choices[i][2]]
             sh == rng_shuffle(texts, state)
         IN  [q |-> [q EXCEPT !.choices = _relabel_choices(sh.xs)],
              state |-> sh.state]

\* the body of the loop of shuffle_exam_set (lines 17-34) for one question
shuffle_question(q, state) ==
    IF q.choices = << >> \/ correct_list(q) = << >>
    THEN [q |-> q, state |-> state]
    ELSE LET letter_to_text == q.choices
             correct_texts == LookupAll(letter_to_text, correct_list(q))
             texts == [i \in DOMAIN q.choices |-> q.choices[i][2]]
             sh == rng_shuffle(texts, state)
             new_choices == _relabel_choices(sh.xs)
             text_to_new_letter ==
                 [i \in DOMAIN new_choices |-> <<new_choices[i][2], new_choices[i][1]>>]
             new_correct == LookupAll(text_to_new_letter, correct_texts)
         IN  [q |-> [q EXCEPT !.choices = new_choices,
                              !.correct = ListVal(new_correct)],
              state |-> sh.state]

\* the loop over data["questions"], the generator passed on in document order
RECURSIVE shuffle_questions(_, _)
shuffle_questions(qs, state) ==
    IF qs = << >> THEN << >>
    ELSE LET r == shuffle_question(Head(qs), state)
         IN  <<r.q>> \o shuffle_questions(Tail(qs), r.state)

shuffle_exam_set(exam_set, seed) ==
    [exam_set EXCEPT !.questions = shuffle_questions(exam_set.questions, rng_seeded(seed))]

\* bounds of SpecShuffle: the seeds 0..MaxSeed (24 = 4*3*2 of them give a
\* four-choice question every order), the questions of an exam set, and the
\* draws other code takes from the process-wide generator
MaxSeed == 47
MaxShuffleLen == 2
MaxGlobalDraws == 1

Distinct4 == <<"t1", "t2", "t3", "t4">>
Repeated4 == <<"t1", "t2", "t1", "t3">>
Blank4 == <<"", "", "", "">>

\* a question as the assembler builds it, with any list of correct letters
MkQuestion(texts, letters) ==
    [id |-> "q", type |-> "single", prompt |-> "stem",
     choices |-> _relabel_choices(texts), correct |-> ListVal(letters),
     correct_index |-> 0, correct_letter |-> StrVal("A"),
     correct_letters |-> NoneVal, meta |-> << >>]

ShuffleQuestions ==
    {MkQuestion(Distinct4, <<"A">>), MkQuestion(Distinct4, <<"C">>),
     MkQuestion(Distinct4, <<"D", "B">>), MkQuestion(Repeated4, <<"A">>),
     MkQuestion(Repeated4, <<"B">>), MkQuestion(Blank4, <<"A">>),
     MkQuestion(Distinct4, << >>), MkQuestion(<< >>, <<"A">>),
     MkQuestion(Distinct4, <<"E">>)}

\* questions i get the ids q1, q2, ...
WithIds(qs) ==
    [i \in DOMAIN qs |-> [qs[i] EXCEPT !.id = <<"q", i>>]]

ShuffleSets ==
    {[id |-> "reading-P1", title |-> "Reading Passage P1", passage |-> "text",
      questions |-> WithIds(qs)] : qs \in SeqsUpTo(ShuffleQuestions, MaxShuffleLen)}

InitShuffle ==
    /\ Idle
    /\ call \in [exam_set : ShuffleSets, seed : 0..MaxSeed]
    /\ ret = << >>
    /\ ret2 = << >>

ShuffleCall ==
    /\ ret = << >>
    /\ ret' = <<shuffle_exam_set(call.exam_set, call.seed)>>
    /\ UNCHANGED <<ATTEMPT_COUNTER, ATTEMPTS, disk, _JSON_CACHE, req, pre, shown, call, ret2, globalRng, heap>>

\* some other request draws from the process-wide generator
\* (random.randint in create_attempt)
GlobalDraw ==
    /\ globalRng < MaxGlobalDraws
    /\ globalRng' = globalRng + 1
    /\ UNCHANGED <<ATTEMPT_COUNTER, ATTEMPTS, disk, _JSON_CACHE, req, pre, shown, call, ret, ret2, heap>>

\* a second invocation with the same exam set and the same seed
ShuffleAgain ==
    /\ ret # << >>
    /\ ret2 = << >>
    /\ ret2' = <<shuffle_exam_set(call.exam_set, call.seed)>>
    /\ UNCHANGED <<ATTEMPT_COUNTER, ATTEMPTS, disk, _JSON_CACHE, req, pre, shown, call, ret, globalRng, heap>>

NextShuffle == ShuffleCall \/ GlobalDraw \/ ShuffleAgain

SpecShuffle == InitShuffle /\ [][NextShuffle]_vars

\* the text a list of choice pairs shows under a letter
TextsUnder(choices, letters) ==
    {choices[i][2] : i \in {k \in DOMAIN choices : choices[k][1] \in Range(letters)}}

C2_ShufflePreservesCorrectText ==
    ret # << >> =>
        \A i \in DOMAIN call.exam_set.questions :
            LET old == call.exam_set.questions[i]
                new == ret[1].questions[i]
            IN  (old.choices # << >> /\ correct_list(old) # << >>) =>
                    /\ new.correct.kind = "list"
                    /\ TextsUnder(new.choices, new.correct.items)
                          = TextsUnder(old.choices, old.correct.items)

\* a question whose correct letter moved: C before, another letter after,
\* the same text under it
C2_Witness ==
    /\ ret # << >>
    /\ \E i \in DOMAIN call.exam_set.questions :
          /\ call.exam_set.questions[i].correct = ListVal(<<"C">>)
          /\ ret[1].questions[i].correct # ListVal(<<"C">>)
          /\ TextsUnder(ret[1].questions[i].choices, ret[1].questions[i].correct.items) = {"t3"}

\* the texts of a list of choice pairs, in order
ChoiceTexts(choices) == [k \in DOMAIN choices |-> choices[k][2]]

\* two lists hold the same texts the same number of times
SameTexts(xs, ys) ==
    /\ Len(xs) = Len(ys)
    /\ \A t \in Range(xs) \cup Range(ys) :
          Cardinality({k \in DOMAIN xs : xs[k] = t})
              = Cardinality({k \in DOMAIN ys : ys[k] = t})

LOWER == <<"a", "b", "c", "d", "e", "f", "g", "h", "i", "j", "k", "l", "m",
           "n", "o", "p", "q", "r", "s", "t", "u", "v", "w", "x", "y", "z">>
UPPER == <<"A", "B", "C", "D", "E", "F", "G", "H", "I", "J", "K", "L", "M",
           "N", "O", "P", "Q", "R", "S", "T", "U", "V", "W", "X", "Y", "Z">>
DIGITS == <<"0", "1", "2", "3", "4", "5", "6", "7", "8", "9">>

\* str.upper, one character
upper_char(c) ==
    IF \E i \in DOMAIN LOWER : LOWER[i] = c
    THEN UPPER[CHOOSE i \in DOMAIN LOWER : LOWER[i] = c]
    ELSE c

\* str.upper
chars_upper(cs) == [i \in DOMAIN cs |-> upper_char(cs[i])]

\* str.strip
RECURSIVE chars_lstrip(_)
chars_lstrip(cs) ==
    IF cs # << >> /\ Head(cs) = " " THEN chars_lstrip(Tail(cs)) ELSE cs

RECURSIVE chars_rstrip(_)
chars_rstrip(cs) ==
    IF cs # << >> /\ cs[Len(cs)] = " "
    THEN chars_rstrip(SubSeq(cs, 1, Len(cs) - 1))
    ELSE cs

chars_strip(cs) == chars_rstrip(chars_lstrip(cs))

\* str.startswith
chars_startswith(cs, prefix) ==
    Len(cs) >= Len(prefix) /\ SubSeq(cs, 1, Len(prefix)) = prefix

\* str.replace(old, ""): every occurrence, left to right
RECURSIVE chars_remove(_, _)
chars_remove(cs, old) ==
    IF cs = << >> THEN << >>
    ELSE IF chars_startswith(cs, old)
         THEN chars_remove(SubSeq(cs, Len(old) + 1, Len(cs)), old)
         ELSE <<Head(cs)>> \o chars_remove(Tail(cs), old)

\* str.isdigit
chars_isdigit(cs) == cs # << >> /\ \A i \in DOMAIN cs : cs[i] \in Range(DIGITS)

\* str(int(cs)) for a string of digits: the leading zeros go
RECURSIVE chars_int_str(_)
chars_int_str(cs) ==
    IF Len(cs) > 1 /\ Head(cs) = "0" THEN chars_int_str(Tail(cs)) ELSE cs

\* str(n) for a small number
RECURSIVE int_chars(_)
int_chars(n) ==
    IF n < 10 THEN <<DIGITS[n + 1]>>
    ELSE int_chars(n \div 10) \o <<DIGITS[(n % 10) + 1]>>

\* _as_str on an id: str(v).strip()
_as_str_chars(cs) == chars_strip(cs)

\* _as_str on a display text, on the texts the inputs are drawn from
_as_str(v) ==
    CASE v = None -> ""
      [] v = " t1 " -> "t1"
      [] v = " stem " -> "stem"
      [] v = " Title " -> "Title"
      [] v = " " -> ""
      [] OTHER -> v

READING_UPPER == <<"R", "E", "A", "D", "I", "N", "G", "-">>
READING_LOWER == <<"r", "e", "a", "d", "i", "n", "g", "-">>

_norm_pid(pid) ==
    LET s0 == chars_upper(_as_str_chars(pid))
    IN  IF s0 = << >> THEN << >>
        ELSE LET s == IF chars_startswith(s0, READING_UPPER)
                      THEN chars_strip(chars_remove(s0, READING_UPPER))
                      ELSE s0
             IN  IF chars_startswith(s, <<"P">>)
                 THEN LET tail == chars_strip(Tail(s))
                      IN  IF chars_isdigit(tail)
                          THEN <<"P">> \o chars_int_str(tail)
                          ELSE s
                 ELSE IF chars_isdigit(s) THEN <<"P">> \o chars_int_str(s)
                 ELSE s

(***************************************************************************)
(* exam_services.py: the schema normalizer                                 *)
(*                                                                         *)
(* A JSON object is a record whose DOMAIN is the set of its keys.  Ids are *)
(* sequences of characters, texts are strings (None when null), a          *)
(* "choices" or "options" value is [shape, items] with                     *)
(*   shape "strs"   items a list of texts                                  *)
(*   shape "dicts"  items a list of [label, text] objects                  *)
(*   shape "pairs"  items a list of <<label, text>>                        *)
(*   shape "other"  any other value that is not null (a mixed list, a      *)
(*                  number, a non-empty string)                            *)
(* "correct" is a field value as in the grader, "correct_index" and        *)
(* "number" are integers.  A key whose value is null, or of a type the     *)
(* code rejects with isinstance, is a key that is absent.                  *)
(***************************************************************************)

Has(d, k) == k \in DOMAIN d

\* d.get(k) for a text: None when the key is absent
GetText(d, k) == IF Has(d, k) THEN d[k] ELSE None

\* d.get(k) for an id: the empty string stands for None, which _as_str
\* turns into the empty string
GetChars(d, k) == IF Has(d, k) THEN d[k] ELSE << >>

\* _pick_first_key(d, keys)[1] for a text
RECURSIVE PickFirstText(_, _)
PickFirstText(d, keys) ==
    IF keys = << >> THEN None
    ELSE IF Has(d, Head(keys)) THEN d[Head(keys)]
    ELSE PickFirstText(d, Tail(keys))

_LETTERS == <<"A", "B", "C", "D">>

\* "label in _LETTER_TO_INDEX" and _LETTER_TO_INDEX[label], from 0
IsLetter(l) == \E i \in DOMAIN _LETTERS : _LETTERS[i] = l
_LETTER_TO_INDEX(l) == (CHOOSE i \in DOMAIN _LETTERS : _LETTERS[i] = l) - 1
_INDEX_TO_LETTER(i) == _LETTERS[i + 1]

OtherChoices == [shape |-> "other", items |-> << >>]
StrChoices(texts) == [shape |-> "strs", items |-> texts]

\* out[...] = text for each item in order (a later item of a label wins)
RECURSIVE PlaceLabelled(_, _)
PlaceLabelled(out, items) ==
    IF items = << >> THEN out
    ELSE LET label == strip_upper(_as_str(Head(items)[1]))
             text == _as_str(Head(items)[2])
             placed == IF IsLetter(label)
                       THEN [out EXCEPT ![_LETTER_TO_INDEX(label) + 1] = text]
                       ELSE out
         IN  PlaceLabelled(placed, Tail(items))

\* _normalize_choices with the length test of line 112 left out
_normalize_choices_any_length(raw_choices) ==
    LET blank == <<"", "", "", "">>
        labelled ==
            IF raw_choices.shape = "dicts"
            THEN [i \in DOMAIN raw_choices.items |->
                     <<GetText(raw_choices.items[i], "label"),
                       GetText(raw_choices.items[i], "text")>>]
            ELSE raw_choices.items
        out == PlaceLabelled(blank, labelled)
    IN  IF raw_choices.shape = "strs"
        THEN [choices |-> [i \in DOMAIN raw_choices.items |-> _as_str(raw_choices.items[i])],
              warned |-> FALSE]
        ELSE IF raw_choices.shape \in {"dicts", "pairs"}
                  /\ \E i \in 1..4 : out[i] # ""
        THEN [choices |-> out, warned |-> FALSE]
        ELSE [choices |-> blank, warned |-> TRUE]

\* returns the four texts and whether the warning was appended
_normalize_choices(raw_choices) ==
    LET blank == <<"", "", "", "">>
        four == raw_choices.shape # "other" /\ Len(raw_choices.items) = 4
        labelled ==
            IF raw_choices.shape = "dicts"
            THEN [i \in DOMAIN raw_choices.items |->
                     <<GetText(raw_choices.items[i], "label"),
                       GetText(raw_choices.items[i], "text")>>]
            ELSE raw_choices.items
        out == PlaceLabelled(blank, labelled)
    IN  IF four /\ raw_choices.shape = "strs"
        THEN [choices |-> [i \in 1..4 |-> _as_str(raw_choices.items[i])], warned |-> FALSE]
        ELSE IF four /\ raw_choices.shape \in {"dicts", "pairs"}
                  /\ \E i \in 1..4 : out[i] # ""
        THEN [choices |-> out, warned |-> FALSE]
        ELSE [choices |-> blank, warned |-> TRUE]

\* returns the index and whether the warning was appended
_normalize_correct_index(q) ==
    IF Has(q, "correct_index") /\ q.correct_index \in 0..3
    THEN [ci |-> q.correct_index, warned |-> FALSE]
    ELSE LET corr == IF Has(q, "correct") THEN q.correct ELSE NoneVal
             letter == CASE corr.kind = "list" /\ corr.items # << >> ->
                               IF corr.items[1] = None THEN ""
                               ELSE strip_upper(corr.items[1])
                         [] corr.kind = "str" -> strip_upper(corr.s)
                         [] OTHER -> ""
         IN  IF IsLetter(letter)
             THEN [ci |-> _LETTER_TO_INDEX(letter), warned |-> FALSE]
             ELSE [ci |-> 0, warned |-> TRUE]

InsertDefaults ==
    [shape |-> "dicts",
     items |-> <<[label |-> "A", text |-> "Insert at [A]"],
                 [label |-> "B", text |-> "Insert at [B]"],
                 [label |-> "C", text |-> "Insert at [C]"],
                 [label |-> "D", text |-> "Insert at [D]"]>>]

\* a choices value is truthy when it is a non-empty list or string
ChoicesTruthy(d, k) ==
    Has(d, k) /\ (d[k].shape = "other" \/ d[k].items # << >>)

IsDict(q) == ~Has(q, "_scalar")

\* one turn of the loop of _normalize_passage_schema (lines 228-285) for the
\* question at position idx (from 0) of passage pid
normalize_question_schema(q, pid, idx) ==
    LET qid0 == _as_str_chars(GetChars(q, "id"))
        qid == IF qid0 # << >> THEN qid0
               ELSE IF Has(q, "number")
                    THEN (IF pid # << >> THEN pid \o <<"-">> ELSE << >>)
                             \o int_chars(q.number)
                    ELSE (IF pid # << >> THEN pid \o <<"-">> ELSE << >>)
                             \o <<"q">> \o int_chars(idx + 1)
        stem0 == _as_str(PickFirstText(q, <<"stem", "prompt">>))
        qtype == _as_str(GetText(q, "question_type"))
        insert == (qtype = "insert_sentence")
        sentence == _as_str(GetText(q, "sentence"))
        stem == IF insert /\ sentence # "" THEN <<"Sentence: ", sentence>> ELSE <<stem0>>
        raw_choices ==
            IF insert
            THEN IF ChoicesTruthy(q, "options") THEN q.options
                 ELSE IF Has(q, "choices") THEN q.choices
                 ELSE InsertDefaults
            ELSE IF Has(q, "choices") THEN q.choices ELSE OtherChoices
        ch == _normalize_choices(raw_choices)
        ci == _normalize_correct_index(q)
        meta == IF insert
                THEN [question_type |-> "insert_sentence",
                      paragraph_label |-> GetText(q, "paragraph_label"),
                      paragraph_text |-> GetText(q, "paragraph_text"),
                      sentence |-> GetText(q, "sentence")]
                ELSE << >>
    IN  [q |-> [id |-> qid, stem |-> stem, choices |-> StrChoices(ch.choices),
                correct_index |-> ci.ci, explanation |-> GetText(q, "explanation"),
                meta |-> meta],
         warnings |-> (IF ch.warned THEN <<<<qid, "choices format not recognized">>>> ELSE << >>)
                   \o (IF ci.warned THEN <<<<qid, "missing/invalid correct answer">>>> ELSE << >>)]

\* the loop over qs_raw from position idx (from 0)
RECURSIVE normalize_questions_from(_, _, _)
normalize_questions_from(qs_raw, pid, idx) ==
    IF idx >= Len(qs_raw) THEN [qs |-> << >>, warnings |-> << >>]
    ELSE LET rest == normalize_questions_from(qs_raw, pid, idx + 1)
             q == qs_raw[idx + 1]
         IN  IF ~IsDict(q)
             THEN [qs |-> rest.qs,
                   warnings |-> <<<<pid, "question not an object">>>> \o rest.warnings]
             ELSE LET n == normalize_question_schema(q, pid, idx)
                  IN  [qs |-> <<n.q>> \o rest.qs, warnings |-> n.warnings \o rest.warnings]

\* returns the normalized passage and the warnings appended
_normalize_passage_schema(p) ==
    LET pid == _as_str_chars(IF Has(p, "id") THEN p.id ELSE GetChars(p, "passage_id"))
        title == _as_str(GetText(p, "title"))
        content0 == _as_str(PickFirstText(p, <<"content", "text", "passage">>))
        has_qs == Has(p, "questions")
        qs_raw == IF has_qs THEN p.questions ELSE << >>
        content == IF content0 = "" /\ qs_raw # << >> /\ IsDict(qs_raw[1])
                      /\ _as_str(GetText(qs_raw[1], "paragraph_text")) # ""
                   THEN _as_str(GetText(qs_raw[1], "paragraph_text"))
                   ELSE content0
        n == normalize_questions_from(qs_raw, pid, 0)
    IN  [p |-> [id |-> pid, title |-> title, content |-> content, questions |-> n.qs],
         warnings |-> (IF has_qs THEN << >>
                       ELSE <<<<pid, "questions missing or not a list">>>>)
                      \o n.warnings]

(***************************************************************************)
(* exam_services.py: the assembler and the sequence numbers                *)
(***************************************************************************)

\* a dict is a record; the empty dict is the empty function
EmptyDict == << >>

\* d[k] = v
SetKey(d, k, v) == [x \in DOMAIN d \cup {k} |-> IF x = k THEN v ELSE d[x]]

\* the answerable question built from a normalized one (lines 314-342; the
\* same statements build q9_out at lines 478-502, where a blank id becomes
\* default_id)
assemble_question(q, default_id) ==
    LET qid0 == _as_str_chars(GetChars(q, "id"))
        qid == IF qid0 # << >> THEN qid0 ELSE default_id
        stem == IF ~Has(q, "stem") THEN <<"">>
                ELSE IF Len(q.stem) = 1 THEN <<_as_str(q.stem[1])>>
                ELSE q.stem
        raw_choices == IF Has(q, "choices") THEN q.choices.items
                       ELSE <<"", "", "", "">>
        ci0 == IF Has(q, "correct_index") THEN q.correct_index ELSE 0
        ci == IF ci0 < 0 \/ ci0 > 3 THEN 0 ELSE ci0
        correct_letter == _INDEX_TO_LETTER(ci)
        choices_pairs == [i \in 1..4 |-> <<_LETTERS[i], _as_str(raw_choices[i])>>]
        out_q == [id |-> qid, type |-> "single", prompt |-> stem,
                  choices |-> choices_pairs,
                  correct |-> ListVal(<<correct_letter>>),
                  correct_index |-> ci,
                  correct_letter |-> StrVal(correct_letter),
                  explanation |-> GetText(q, "explanation")]
    IN  IF Has(q, "meta") /\ DOMAIN q.meta # {}
        THEN SetKey(out_q, "meta", q.meta)
        ELSE out_q

_passage_to_exam_set(p_norm) ==
    LET pid == _as_str_chars(GetChars(p_norm, "id"))
        title == _as_str(GetText(p_norm, "title"))
        passage_text == _as_str(GetText(p_norm, "content"))
        qs == IF Has(p_norm, "questions") THEN p_norm.questions ELSE << >>
        label == IF pid # << >> THEN <<"Reading Passage ", pid>>
                 ELSE <<"Reading Passage">>
    IN  [id |-> IF pid # << >> THEN READING_LOWER \o pid
                ELSE <<"r", "e", "a", "d", "i", "n", "g">>,
         title |-> IF title # "" THEN label \o <<": ", title>> ELSE label,
         passage |-> passage_text,
         questions |-> [i \in DOMAIN qs |-> assemble_question(qs[i], << >>)]]

\* the meta of a question, {} when it has none
MetaOf(q) == IF Has(q, "meta") THEN q.meta ELSE EmptyDict

\* sequence numbers counted from 0, as enumerate does without start=1
_ensure_seq_from_zero(exam_set) ==
    [exam_set EXCEPT !.questions =
        [i \in DOMAIN exam_set.questions |->
            LET q == exam_set.questions[i]
                meta == MetaOf(q)
            IN  IF Has(meta, "seq") THEN SetKey(q, "meta", meta)
                ELSE SetKey(q, "meta", SetKey(meta, "seq", i - 1))]]

\* _ensure_seq of exam_services.py: a question whose meta has no "seq" gets
\* its position, from 1; the exam set is changed in place
_ensure_seq(exam_set) ==
    [exam_set EXCEPT !.questions =
        [i \in DOMAIN exam_set.questions |->
            LET q == exam_set.questions[i]
                meta == MetaOf(q)
            IN  IF Has(meta, "seq") THEN SetKey(q, "meta", meta)
                ELSE SetKey(q, "meta", SetKey(meta, "seq", i))]]

\* _get_question_by_seq: << >> for None, <<q>> for the first question of
\* that sequence number
_get_question_by_seq(exam_set, seq) ==
    LET qs == exam_set.questions
        hits == {i \in DOMAIN qs :
                    (IF Has(MetaOf(qs[i]), "seq") THEN MetaOf(qs[i]).seq ELSE 0) = seq}
    IN  IF hits = {} THEN << >>
        ELSE <<qs[CHOOSE i \in hits : \A j \in hits : i <= j]>>

(***************************************************************************)
(* exam_services.py: the bank files and the loader                         *)
(*                                                                         *)
(* disk maps the name of each file that exists to its content: a JSON      *)
(* object (a record, with a list under "passages" when it has one), a root *)
(* that is no object ([_scalar |-> TRUE]) or text that is no JSON          *)
(* ([_invalid |-> TRUE]).  An operator that reads a file takes the files   *)
(* and the cache and returns the cache as the read left it; raised is the  *)
(* name of the exception that ended the call, "" when it returned.         *)
(***************************************************************************)

MCQ_FILE == "passages.json"
Q9_FILE == "passages_q9.json"

_bank_path(bank_key) == IF strip_lower(bank_key) = "q9" THEN Q9_FILE ELSE MCQ_FILE

_q9_path == Q9_FILE

path_exists(files, path) == path \in DOMAIN files

_read_json(files, cache, path) ==
    IF path \in DOMAIN cache
    THEN [raised |-> "", payload |-> cache[path], cache |-> cache]
    ELSE IF ~path_exists(files, path)
    THEN [raised |-> "FileNotFoundError", payload |-> EmptyDict, cache |-> cache]
    ELSE IF Has(files[path], "_invalid")
    THEN [raised |-> "JSONDecodeError", payload |-> EmptyDict, cache |-> cache]
    ELSE [raised |-> "", payload |-> files[path],
          cache |-> SetKey(cache, path, files[path])]

\* payload.get("passages") when it is a list, << >> otherwise
PassagesOf(payload) == IF Has(payload, "passages") THEN payload.passages ELSE << >>

_validate_passages_payload_loose(payload) ==
    IF ~IsDict(payload) THEN [ok |-> FALSE, errors |-> <<"Root must be an object.">>]
    ELSE IF ~Has(payload, "passages")
    THEN [ok |-> FALSE, errors |-> <<"'passages' must be a list.">>]
    ELSE IF payload.passages = << >>
    THEN [ok |-> FALSE, errors |-> <<"'passages' is empty.">>]
    ELSE [ok |-> TRUE, errors |-> << >>]

NoExamSet == [id |-> << >>, title |-> << >>, passage |-> "", questions |-> << >>]

\* passage_index is never negative here: it is what randrange returned
_load_exam_set_from_passages(files, cache, bank_key, passage_index) ==
    LET path == _bank_path(bank_key)
        failed(e, c) == [raised |-> e, exam_set |-> NoExamSet, warnings |-> << >>,
                         cache |-> c]
        built(c, w0, n, exam_set) ==
            [raised |-> "", exam_set |-> exam_set,
             warnings |-> w0 \o n.warnings \o
                          (IF exam_set.questions = << >>
                           THEN <<<< << >>, "zero questions after normalization">>>>
                           ELSE << >>),
             cache |-> c]
        normalized(c, w0, n) == built(c, w0, n, _passage_to_exam_set(n.p))
        loaded(rd) ==
            IF rd.raised # "" THEN failed(rd.raised, rd.cache)
            ELSE IF ~_validate_passages_payload_loose(rd.payload).ok
            THEN failed("ValueError", rd.cache)
            ELSE LET passages_raw == rd.payload.passages
                     idx == passage_index % Len(passages_raw)
                     w0 == IF idx # passage_index
                           THEN <<<< << >>, "passage_index out of range">>>> ELSE << >>
                 IN  IF ~IsDict(passages_raw[idx + 1])
                     THEN failed("AttributeError", rd.cache)
                     ELSE normalized(rd.cache, w0,
                                     _normalize_passage_schema(passages_raw[idx + 1]))
    IN  IF ~path_exists(files, path) THEN failed("FileNotFoundError", cache)
        ELSE loaded(_read_json(files, cache, path))

\* random.Random(seed).randrange(passages_count)
_derive_passage_index(seed, passages_count) ==
    randbelow_value(rng_seeded(seed), passages_count)

\* a file that cannot be read counts as one passage; a root that is no
\* object has no get, and the AttributeError is not caught
_count_passages(files, cache, bank_key) ==
    LET counted(rd) ==
            IF rd.raised # "" THEN [raised |-> "", count |-> 1, cache |-> rd.cache]
            ELSE IF ~IsDict(rd.payload)
            THEN [raised |-> "AttributeError", count |-> 0, cache |-> rd.cache]
            ELSE IF PassagesOf(rd.payload) # << >>
            THEN [raised |-> "", count |-> Len(rd.payload.passages), cache |-> rd.cache]
            ELSE [raised |-> "", count |-> 1, cache |-> rd.cache]
    IN  counted(_read_json(files, cache, _bank_path(bank_key)))

(***************************************************************************)
(* exam_services.py: the Q9 merge and the attempts                         *)
(***************************************************************************)

\* the first passage of the Q9 bank whose normalized id is want
q9_target(passages, want) ==
    LET got(p) == _norm_pid(IF Has(p, "passage_id") THEN p.passage_id
                            ELSE GetChars(p, "id"))
        hits == {i \in DOMAIN passages :
                    /\ IsDict(passages[i])
                    /\ got(passages[i]) # << >>
                    /\ got(passages[i]) = want}
    IN  IF hits = {} THEN << >>
        ELSE <<passages[CHOOSE i \in hits : \A j \in hits : i <= j]>>

\* q is << >> for None and <<question>> otherwise
_load_q9_question_for_passage(files, cache, passage_id) ==
    LET none(c, w) == [raised |-> "", q |-> << >>, warnings |-> <<w>>, cache |-> c]
        first_of(c, want, n) ==
            IF n.p.questions = << >>
            THEN [raised |-> "", q |-> << >>,
                  warnings |-> n.warnings \o <<<<want, "Q9 questions empty">>>>,
                  cache |-> c]
            ELSE [raised |-> "", q |-> <<n.p.questions[1]>>,
                  warnings |-> n.warnings, cache |-> c]
        picked(c, want, target) ==
            IF target = << >> THEN none(c, <<want, "Q9 passage not found">>)
            ELSE first_of(c, want, _normalize_passage_schema(target[1]))
        looked(rd, want) ==
            IF rd.raised # ""
            THEN [raised |-> rd.raised, q |-> << >>, warnings |-> << >>,
                  cache |-> rd.cache]
            ELSE IF ~IsDict(rd.payload)
            THEN [raised |-> "AttributeError", q |-> << >>, warnings |-> << >>,
                  cache |-> rd.cache]
            ELSE IF PassagesOf(rd.payload) = << >>
            THEN none(rd.cache, <<<< >>, "Q9 bank has no passages.">>)
            ELSE IF want = << >>
            THEN none(rd.cache, <<<< >>, "Q9 lookup: empty passage_id">>)
            ELSE picked(rd.cache, want, q9_target(rd.payload.passages, want))
    IN  IF ~path_exists(files, _q9_path) THEN none(cache, <<<< >>, "Q9 bank missing">>)
        ELSE looked(_read_json(files, cache, _q9_path), _norm_pid(passage_id))

\* a merge that appends the Q9 question whatever the exam set holds
pick_full_exam_set_appending(files, cache, seed) ==
    LET merged(res, q9, q9_out) ==
            LET qs == res.exam_set.questions
            IN  IF FALSE
                THEN [raised |-> "", exam_set |-> _ensure_seq(res.exam_set),
                      cache |-> q9.cache]
                ELSE [raised |-> "",
                      exam_set |-> _ensure_seq([res.exam_set EXCEPT
                                                   !.questions = qs \o <<q9_out>>]),
                      cache |-> q9.cache]
        with_q9(res, passage_id, q9) ==
            IF q9.raised # ""
            THEN [raised |-> q9.raised, exam_set |-> NoExamSet, cache |-> q9.cache]
            ELSE IF q9.q = << >>
            THEN [raised |-> "", exam_set |-> _ensure_seq(res.exam_set),
                  cache |-> q9.cache]
            ELSE merged(res, q9, assemble_question(q9.q[1], passage_id \o <<"-", "9">>))
        with_passage_id(res, passage_id) ==
            IF passage_id = << >>
            THEN [raised |-> "", exam_set |-> _ensure_seq(res.exam_set),
                  cache |-> res.cache]
            ELSE with_q9(res, passage_id,
                         _load_q9_question_for_passage(files, res.cache, passage_id))
        loaded(res) ==
            IF res.raised # ""
            THEN [raised |-> res.raised, exam_set |-> NoExamSet, cache |-> res.cache]
            ELSE with_passage_id(res, _norm_pid(_as_str_chars(res.exam_set.id)))
        counted(cnt) ==
            IF cnt.raised # ""
            THEN [raised |-> cnt.raised, exam_set |-> NoExamSet, cache |-> cnt.cache]
            ELSE loaded(_load_exam_set_from_passages(
                            files, cnt.cache, "mcq",
                            _derive_passage_index(seed, cnt.count)))
    IN  counted(_count_passages(files, cache, "mcq"))

pick_full_exam_set_for_attempt(files, cache, seed) ==
    LET merged(res, q9, q9_out) ==
            LET qs == res.exam_set.questions
            IN  IF \E i \in DOMAIN qs : _as_str_chars(qs[i].id) = q9_out.id
                THEN [raised |-> "", exam_set |-> _ensure_seq(res.exam_set),
                      cache |-> q9.cache]
                ELSE [raised |-> "",
                      exam_set |-> _ensure_seq([res.exam_set EXCEPT
                                                   !.questions = qs \o <<q9_out>>]),
                      cache |-> q9.cache]
        with_q9(res, passage_id, q9) ==
            IF q9.raised # ""
            THEN [raised |-> q9.raised, exam_set |-> NoExamSet, cache |-> q9.cache]
            ELSE IF q9.q = << >>
            THEN [raised |-> "", exam_set |-> _ensure_seq(res.exam_set),
                  cache |-> q9.cache]
            ELSE merged(res, q9, assemble_question(q9.q[1], passage_id \o <<"-", "9">>))
        with_passage_id(res, passage_id) ==
            IF passage_id = << >>
            THEN [raised |-> "", exam_set |-> _ensure_seq(res.exam_set),
                  cache |-> res.cache]
            ELSE with_q9(res, passage_id,
                         _load_q9_question_for_passage(files, res.cache, passage_id))
        loaded(res) ==
            IF res.raised # ""
            THEN [raised |-> res.raised, exam_set |-> NoExamSet, cache |-> res.cache]
            ELSE with_passage_id(res, _norm_pid(_as_str_chars(res.exam_set.id)))
        counted(cnt) ==
            IF cnt.raised # ""
            THEN [raised |-> cnt.raised, exam_set |-> NoExamSet, cache |-> cnt.cache]
            ELSE loaded(_load_exam_set_from_passages(
                            files, cnt.cache, "mcq",
                            _derive_passage_index(seed, cnt.count)))
    IN  counted(_count_passages(files, cache, "mcq"))

\* pick_exam_set: the first passage of the main bank, without the Q9 merge
pick_exam_set(files, cache) ==
    LET loaded(res) ==
            IF res.raised # ""
            THEN [raised |-> res.raised, exam_set |-> NoExamSet, cache |-> res.cache]
            ELSE [raised |-> "", exam_set |-> _ensure_seq(res.exam_set),
                  cache |-> res.cache]
    IN  loaded(_load_exam_set_from_passages(files, cache, "mcq", 0))

\* pick_exam_set_for_attempt: the passage of the seed, without the Q9 merge
pick_exam_set_for_attempt(files, cache, seed) ==
    LET loaded(res) ==
            IF res.raised # ""
            THEN [raised |-> res.raised, exam_set |-> NoExamSet, cache |-> res.cache]
            ELSE [raised |-> "", exam_set |-> _ensure_seq(res.exam_set),
                  cache |-> res.cache]
        counted(cnt) ==
            IF cnt.raised # ""
            THEN [raised |-> cnt.raised, exam_set |-> NoExamSet, cache |-> cnt.cache]
            ELSE loaded(_load_exam_set_from_passages(
                            files, cnt.cache, "mcq",
                            _derive_passage_index(seed, cnt.count)))
    IN  counted(_count_passages(files, cache, "mcq"))

\* the bounds of single_index
SingleIndexMin == 1
SingleIndexMax == 9

\* (mode or "full").strip().lower(), "full" when it is not "single"
mode_of(mode) ==
    LET m == strip_lower(IF mode = "" \/ mode = None THEN "full" ELSE mode)
    IN  IF m \in {"full", "single"} THEN m ELSE "full"

\* an attempt stored with the timed_out flag set
new_attempt_timed_out(minutes, mode, single_index, seed, now, raw_exam_set) ==
    [minutes |-> minutes, started_at |-> now, submitted |-> FALSE,
     timed_out |-> TRUE, result |-> << >>,
     raw_exam_set |-> _ensure_seq(raw_exam_set),
     shuffle_seed |-> seed, passage_seed |-> seed, mode |-> mode_of(mode),
     single_index |-> Max(SingleIndexMin, Min(SingleIndexMax, single_index)),
     answers |-> EmptyDict, shuffled_exam_set |-> << >>]

\* the attempt create_attempt stores; seed is what random.randint returned
\* and now is int(time.time())
new_attempt(minutes, mode, single_index, seed, now, raw_exam_set) ==
    [minutes |-> minutes, started_at |-> now, submitted |-> FALSE,
     timed_out |-> FALSE, result |-> << >>,
     raw_exam_set |-> _ensure_seq(raw_exam_set),
     shuffle_seed |-> seed, passage_seed |-> seed, mode |-> mode_of(mode),
     single_index |-> Max(SingleIndexMin, Min(SingleIndexMax, single_index)),
     answers |-> EmptyDict, shuffled_exam_set |-> << >>]

\* a lookup that answers an unknown id with an attempt of the store
get_attempt_any(attempts, attempt_id) ==
    IF attempt_id \in DOMAIN attempts THEN <<attempts[attempt_id]>>
    ELSE IF DOMAIN attempts # {} THEN <<attempts[CHOOSE k \in DOMAIN attempts : TRUE]>>
    ELSE << >>

get_attempt(attempts, attempt_id) ==
    IF attempt_id \in DOMAIN attempts THEN <<attempts[attempt_id]>> ELSE << >>

\* a lookup that shuffles the view it has cached once more
get_exam_set_reshuffled(attempt) ==
    LET seed == IF attempt.shuffle_seed = 0 THEN 1 ELSE attempt.shuffle_seed
        from == IF attempt.shuffled_exam_set # << >>
                THEN attempt.shuffled_exam_set[1] ELSE attempt.raw_exam_set
        shuffled == _ensure_seq(shuffle_exam_set(from, seed))
    IN  [exam_set |-> shuffled,
         attempt |-> [attempt EXCEPT !.shuffled_exam_set = <<shuffled>>]]

\* returns the exam set and the attempt as the call left it; raw_exam_set is
\* a dict in every attempt create_attempt stored
get_exam_set_for_attempt(attempt) ==
    IF attempt.shuffled_exam_set # << >>
    THEN [exam_set |-> attempt.shuffled_exam_set[1], attempt |-> attempt]
    ELSE LET seed == IF attempt.shuffle_seed = 0 THEN 1 ELSE attempt.shuffle_seed
             shuffled == _ensure_seq(shuffle_exam_set(attempt.raw_exam_set, seed))
         IN  [exam_set |-> shuffled,
              attempt |-> [attempt EXCEPT !.shuffled_exam_set = <<shuffled>>]]

(***************************************************************************)
(* exam_routes.py: the answers of a page                                   *)
(*                                                                         *)
(* A posted form is [cur, items]: cur is the value of the field            *)
(* _current_qid (<< >> when the form has none) and items are the other     *)
(* fields in order, each <<name, value>>.                                  *)
(***************************************************************************)

ANS_PREFIX == <<"a", "n", "s", "_">>

\* d.update(e)
Merge(d, e) == [k \in DOMAIN d \cup DOMAIN e |-> IF k \in DOMAIN e THEN e[k] ELSE d[k]]

\* del d[k]
DelKey(d, k) == [x \in DOMAIN d \ {k} |-> d[x]]

\* by_key[key]: the values of the fields named key, in order
RECURSIVE field_values(_, _)
field_values(items, key) ==
    IF items = << >> THEN << >>
    ELSE IF Head(items)[1] = key
    THEN <<Head(items)[2]>> \o field_values(Tail(items), key)
    ELSE field_values(Tail(items), key)

\* {qid: "A"} is qid -> StrVal("A") and {qid: ["A", "C"]} is
\* qid -> ListVal(<<"A", "C">>)
_extract_answers_from_formdata(form) ==
    LET keys == {form.items[i][1] : i \in DOMAIN form.items}
        ans_keys == {k \in keys : chars_startswith(k, ANS_PREFIX)}
        clean(k) == clean_list(field_values(form.items, k))
        qids == {SubSeq(k, 5, Len(k)) : k \in {a \in ans_keys : clean(a) # << >>}}
    IN  [qid \in qids |->
            LET c == clean(ANS_PREFIX \o qid)
            IN  IF Len(c) = 1 THEN StrVal(c[1]) ELSE ListVal(c)]

\* the update without the removal of the answer of the current question
_apply_page_answers_keep(attempt, current_qid, page_answers) ==
    LET answers == attempt.answers
        qid == chars_strip(current_qid)
    IN  IF qid = << >>
        THEN [attempt EXCEPT !.answers = Merge(answers, page_answers)]
        ELSE IF qid \in DOMAIN page_answers
        THEN [attempt EXCEPT !.answers = SetKey(answers, qid, page_answers[qid])]
        ELSE [attempt EXCEPT !.answers = Merge(answers, page_answers)]

\* returns the attempt as the call left it; attempt["answers"] is a dict in
\* every attempt create_attempt stored
_apply_page_answers(attempt, current_qid, page_answers) ==
    LET answers == attempt.answers
        qid == chars_strip(current_qid)
    IN  IF qid = << >>
        THEN [attempt EXCEPT !.answers = Merge(answers, page_answers)]
        ELSE IF qid \in DOMAIN page_answers
        THEN [attempt EXCEPT !.answers = SetKey(answers, qid, page_answers[qid])]
        ELSE [attempt EXCEPT !.answers = Merge(DelKey(answers, qid), page_answers)]

_save_page_answers_from_form(attempt, form) ==
    _apply_page_answers(attempt, chars_strip(form.cur),
                        _extract_answers_from_formdata(form))

(***************************************************************************)
(* question_repo.py and exam_routes.py: the questions of a page            *)
(***************************************************************************)

\* the choices of every question that reaches it here are pairs (Case 1)
normalize_question(q) ==
    LET prompt == IF Has(q, "prompt") THEN q.prompt
                  ELSE IF Has(q, "stem") THEN q.stem
                  ELSE IF Has(q, "question") THEN q.question
                  ELSE <<"">>
        qtype == IF Has(q, "type") /\ q.type \in {"single", "multi"} THEN q.type
                 ELSE "single"
        raw_choices == IF Has(q, "choices") THEN q.choices ELSE << >>
        choices_pairs == [i \in DOMAIN raw_choices |->
                             <<_as_str(raw_choices[i][1]), _as_str(raw_choices[i][2])>>]
        has_ci == Has(q, "correct_index")
        from_index == IF has_ci /\ q.correct_index \in 0..3
                      THEN StrVal(_LETTERS[q.correct_index + 1]) ELSE NoneVal
        correct_letter == IF Has(q, "correct_letter") /\ Truthy(q.correct_letter)
                          THEN StrVal(_as_str(q.correct_letter.s))
                          ELSE from_index
        with_prompt == SetKey(q, "prompt", prompt)
        with_type == SetKey(with_prompt, "type", qtype)
        with_choices == SetKey(with_type, "choices", choices_pairs)
        with_letter == SetKey(with_choices, "correct_letter", correct_letter)
        with_letters == SetKey(with_letter, "correct_letters", NoneVal)
    IN  SetKey(with_letters, "correct_indices", NoneVal)

\* _get_seq: int(meta.get("seq") or 0)
_get_seq(q) == IF Has(MetaOf(q), "seq") THEN MetaOf(q).seq ELSE 0

\* a numbering that gives every question its position
routes_ensure_seq_overwrite(questions) ==
    [i \in DOMAIN questions |->
        SetKey(questions[i], "meta", SetKey(MetaOf(questions[i]), "seq", i))]

\* _ensure_seq of exam_routes.py: on a copy, and a seq of 0 counts as none
routes_ensure_seq(questions) ==
    [i \in DOMAIN questions |->
        LET q == questions[i]
            meta == MetaOf(q)
        IN  IF _get_seq(q) # 0 THEN q
            ELSE SetKey(q, "meta", SetKey(meta, "seq", i))]

\* a search that takes the sequence number to count from 0
_find_question_after_seq(questions, seq) ==
    LET hits == {i \in DOMAIN questions : _get_seq(questions[i]) = seq + 1}
    IN  IF hits = {} THEN << >>
        ELSE <<questions[CHOOSE i \in hits : \A j \in hits : i <= j]>>

\* <<q>> for the first question of that sequence number, << >> for None
_find_question_by_seq(questions, seq) ==
    LET hits == {i \in DOMAIN questions : _get_seq(questions[i]) = seq}
    IN  IF hits = {} THEN << >>
        ELSE <<questions[CHOOSE i \in hits : \A j \in hits : i <= j]>>

_normalize_questions(raw_questions) ==
    routes_ensure_seq(
        [i \in DOMAIN raw_questions |->
            LET q == raw_questions[i]
                nq == normalize_question(q)
            IN  SetKey(nq, "meta", SetKey(MetaOf(nq), "_raw", q))])

_clamp(n, lo, hi) == Max(lo, Min(hi, n))

(***************************************************************************)
(* exam_routes.py: the correct answers of the review page                  *)
(*                                                                         *)
(* A lookup returns [done, v]: done when a return statement was reached,   *)
(* v the field value returned (NoneVal for None).                          *)
(***************************************************************************)

NotYet == [done |-> FALSE, v |-> NoneVal]
Returned(v) == [done |-> TRUE, v |-> v]

\* the loop over ("correct_letter", "answer", "correct"): the first value
\* that is a non-blank str, stripped and upper-cased
RECURSIVE first_str(_, _)
first_str(d, keys) ==
    IF keys = << >> THEN NotYet
    ELSE IF /\ Has(d, Head(keys))
            /\ d[Head(keys)].kind = "str"
            /\ strip_upper(d[Head(keys)].s) # ""
    THEN Returned(StrVal(strip_upper(d[Head(keys)].s)))
    ELSE first_str(d, Tail(keys))

\* _to_letter_from_index of exam_routes.py on d["correct_index"]
index_letter(d) ==
    IF Has(d, "correct_index") /\ d.correct_index \in 0..3
    THEN Returned(StrVal(_LETTERS[d.correct_index + 1]))
    ELSE NotYet

\* the loop over ("correct_letters", "correct_indices", "answers"): the
\* first value that is a non-empty list ends the search, with its non-blank
\* items or with None
RECURSIVE first_list(_, _)
first_list(d, keys) ==
    IF keys = << >> THEN NotYet
    ELSE IF /\ Has(d, Head(keys))
            /\ d[Head(keys)].kind = "list"
            /\ d[Head(keys)].items # << >>
    THEN Returned(IF clean_list(d[Head(keys)].items) # << >>
                  THEN ListVal(clean_list(d[Head(keys)].items))
                  ELSE NoneVal)
    ELSE first_list(d, Tail(keys))

STR_KEYS == <<"correct_letter", "answer", "correct">>
LIST_KEYS == <<"correct_letters", "correct_indices", "answers">>

\* the three searches of one dict (lines 246-267, 270-291, 295-316)
extract_from_dict(d) ==
    IF first_str(d, STR_KEYS).done THEN first_str(d, STR_KEYS)
    ELSE IF index_letter(d).done THEN index_letter(d)
    ELSE first_list(d, LIST_KEYS)

\* the two searches of raw["meta"] (lines 318-327)
extract_from_raw_meta(d) ==
    IF first_str(d, STR_KEYS).done THEN first_str(d, STR_KEYS)
    ELSE index_letter(d)

\* the question, then its meta, then meta["_raw"], then the meta of that
_extract_correct_from_any(q) ==
    LET meta == MetaOf(q)
        raw == IF Has(meta, "_raw") THEN meta._raw ELSE EmptyDict
    IN  IF extract_from_dict(q).done THEN extract_from_dict(q).v
        ELSE IF extract_from_dict(meta).done THEN extract_from_dict(meta).v
        ELSE IF extract_from_dict(raw).done THEN extract_from_dict(raw).v
        ELSE extract_from_raw_meta(MetaOf(raw)).v

\* data/answer_keys.json is on no disk of the model: _load_answer_keys
\* returns {} (lines 186-187) and the lookup None (lines 340-341)
_lookup_correct_from_answer_keys(qid) == NoneVal

_norm_qid(qid) == chars_upper(chars_strip(qid))

\* the dict of the review page: the answer under the id and under the
\* normalized id of every question that has one
RECURSIVE _build_correct_answers(_)
_build_correct_answers(questions) ==
    IF questions = << >> THEN EmptyDict
    ELSE LET n == Len(questions)
             out == _build_correct_answers(SubSeq(questions, 1, n - 1))
             q == questions[n]
             entered(qid, ca) ==
                 IF ca.kind = "none" THEN out
                 ELSE SetKey(SetKey(out, _norm_qid(qid), ca), qid, ca)
             found(qid, ca) ==
                 entered(qid, IF ca.kind = "none"
                              THEN _lookup_correct_from_answer_keys(_norm_qid(qid))
                              ELSE ca)
         IN  IF ~Has(q, "id") THEN out
             ELSE IF chars_strip(q.id) = << >> THEN out
             ELSE found(q.id, _extract_correct_from_any(q))

(***************************************************************************)
(* exam_routes.py: what the handlers share                                 *)
(***************************************************************************)

\* the fewest questions of a full exam set
FullSetMin == 10

\* core.sample_bank.SAMPLE_BANK[0], the default entry: a complete exam set
SAMPLE_BANK_0 ==
    [id |-> <<"s", "a", "m", "p", "l", "e">>, title |-> <<"Sample">>,
     passage |-> "sample text", default_minutes |-> 20,
     questions |->
        [i \in 1..FullSetMin |->
            [id |-> <<"S">> \o int_chars(i), type |-> "single",
             prompt |-> <<"sample stem">>,
             choices |-> _relabel_choices(<<"s1", "s2", "s3", "s4">>),
             correct |-> ListVal(<<"A">>)]]]

_ensure_full_set_for_single(attempt, exam_set) ==
    IF mode_of(attempt.mode) # "single" THEN exam_set
    ELSE IF Len(exam_set.questions) < FullSetMin THEN SAMPLE_BANK_0
    ELSE exam_set

\* a create_attempt that stores the attempt whether or not the pick raised
create_attempt_always(files, counter, attempts, cache, minutes, mode, idx, seed, now) ==
    LET attempt_id == int_chars(counter + 1)
        stored(picked) ==
            [raised |-> picked.raised, attempt_id |-> attempt_id,
             counter |-> counter + 1,
             attempts |-> SetKey(attempts, attempt_id,
                             new_attempt(minutes, mode, idx, seed, now,
                                         picked.exam_set)),
             cache |-> picked.cache]
    IN  stored(pick_full_exam_set_for_attempt(files, cache, seed))

\* a create_attempt that leaves the counter where it was when it stores
create_attempt_uncounted(files, counter, attempts, cache, minutes, mode, idx, seed, now) ==
    LET attempt_id == int_chars(counter + 1)
        stored(picked) ==
            IF picked.raised # ""
            THEN [raised |-> picked.raised, attempt_id |-> attempt_id,
                  counter |-> counter + 1, attempts |-> attempts,
                  cache |-> picked.cache]
            ELSE [raised |-> "", attempt_id |-> attempt_id, counter |-> counter,
                  attempts |-> SetKey(attempts, attempt_id,
                                  new_attempt(minutes, mode, idx, seed, now,
                                              picked.exam_set)),
                  cache |-> picked.cache]
    IN  stored(pick_full_exam_set_for_attempt(files, cache, seed))

\* create_attempt on the store: the counter goes up before the exam set is
\* picked, so it stays up when the pick raises
create_attempt(files, counter, attempts, cache, minutes, mode, idx, seed, now) ==
    LET attempt_id == int_chars(counter + 1)
        stored(picked) ==
            IF picked.raised # ""
            THEN [raised |-> picked.raised, attempt_id |-> attempt_id,
                  counter |-> counter + 1, attempts |-> attempts,
                  cache |-> picked.cache]
            ELSE [raised |-> "", attempt_id |-> attempt_id, counter |-> counter + 1,
                  attempts |-> SetKey(attempts, attempt_id,
                                  new_attempt(minutes, mode, idx, seed, now,
                                              picked.exam_set)),
                  cache |-> picked.cache]
    IN  stored(pick_full_exam_set_for_attempt(files, cache, seed))

\* the statements submit and autosubmit share (lines 635-679 and 699-743):
\* the attempt with the view cached and the page saved, the questions graded
\* and the result; raised when the single question does not exist
grade_attempt(attempt0, form) ==
    LET graded(got, attempt, grade_questions, g) ==
            [raised |-> "", attempt |-> attempt, view |-> got.exam_set,
             questions |-> grade_questions,
             result |-> <<[score |-> g.score_points, total |-> g.total_points,
                           feedback |-> g.feedback,
                           scaled_score |->
                               scale_reading_score(g.score_points, g.total_points)]>>]
        chosen(got, attempt, grade_questions) ==
            graded(got, attempt, grade_questions,
                   grade(grade_questions, attempt.answers))
        single(questions_all, seq, found) ==
            IF found # << >> THEN found ELSE <<questions_all[seq]>>
        normalized(got, attempt, questions_all) ==
            LET mode == mode_of(attempt.mode)
                seq == _clamp(IF attempt.single_index = 0 THEN 1
                              ELSE attempt.single_index,
                              1, IF questions_all # << >> THEN Len(questions_all) ELSE 1)
            IN  IF mode = "single" /\ questions_all = << >>
                THEN [raised |-> "IndexError", attempt |-> attempt,
                      view |-> got.exam_set, questions |-> << >>, result |-> << >>]
                ELSE chosen(got, attempt,
                            IF mode = "single"
                            THEN single(questions_all, seq,
                                        _find_question_by_seq(questions_all, seq))
                            ELSE questions_all)
        viewed(got) ==
            normalized(got, _save_page_answers_from_form(got.attempt, form),
                       _normalize_questions(
                           _ensure_full_set_for_single(got.attempt,
                                                       got.exam_set).questions))
    IN  viewed(get_exam_set_for_attempt(attempt0))

(***************************************************************************)
(* exam_routes.py: the handlers                                            *)
(*                                                                         *)
(* req is the last request: the handler, the attempt id of its path, the   *)
(* status it answered with ("raised" when an exception ended it), the form *)
(* it was posted, the exam set get_exam_set_for_attempt returned to it     *)
(* (view), and the questions it displayed or graded (qs).  shown keeps,    *)
(* for every attempt, the first exam set get_exam_set_for_attempt returned *)
(* for it and the questions the exam page displayed last.  pre keeps the   *)
(* answers the attempt held before the last page was saved.                *)
(***************************************************************************)

NoForm == [cur |-> << >>, items |-> << >>]

Response(op, id, status, form, view, qs) ==
    [op |-> op, id |-> id, status |-> status, form |-> form, view |-> view, qs |-> qs,
     review_mode |-> FALSE, correct_answers |-> EmptyDict]

\* the exam page with its review_mode and correct_answers (lines 564, 589, 592)
Reviewed(response, review, all_qs) ==
    [response EXCEPT !.review_mode = review,
                     !.correct_answers = IF review THEN _build_correct_answers(all_qs)
                                         ELSE EmptyDict]

\* the first view returned for attempt id is kept
Observe(sh, id, view) ==
    IF id \notin DOMAIN sh
    THEN SetKey(sh, id, [first |-> <<view>>, displayed |-> << >>])
    ELSE IF sh[id].first = << >> THEN [sh EXCEPT ![id].first = <<view>>]
    ELSE sh

Displayed(sh, id, qs) == [sh EXCEPT ![id].displayed = <<qs>>]

\* POST /start, and create_attempt with it
Start(minutes, mode, single_index, seed, now) ==
    LET answered(created) ==
            /\ ATTEMPT_COUNTER' = created.counter
            /\ ATTEMPTS' = created.attempts
            /\ _JSON_CACHE' = created.cache
            /\ req' = Response("start", created.attempt_id,
                               IF created.raised # "" THEN "raised" ELSE "303",
                               NoForm, << >>, << >>)
    IN  /\ answered(create_attempt(disk, ATTEMPT_COUNTER, ATTEMPTS, _JSON_CACHE,
                                   minutes, mode_of(mode), single_index, seed, now))
        /\ globalRng' = seed
        /\ pre' = << >>
        /\ UNCHANGED <<disk, shown, call, ret, ret2, heap>>

\* GET /passage/{attempt_id}
Passage(attempt_id) ==
    LET attempt == get_attempt(ATTEMPTS, attempt_id)
        answered(got) ==
            /\ ATTEMPTS' = [ATTEMPTS EXCEPT ![attempt_id] = got.attempt]
            /\ shown' = Observe(shown, attempt_id, got.exam_set)
            /\ req' = Response("passage", attempt_id, "200", NoForm,
                               <<got.exam_set>>, << >>)
    IN  /\ IF attempt = << >>
           THEN /\ req' = Response("passage", attempt_id, "404", NoForm, << >>, << >>)
                /\ UNCHANGED <<ATTEMPTS, shown>>
           ELSE answered(get_exam_set_for_attempt(attempt[1]))
        /\ pre' = << >>
        /\ UNCHANGED <<ATTEMPT_COUNTER, disk, _JSON_CACHE, call, ret, ret2, globalRng, heap>>

\* GET /exam/{attempt_id}?q=...&review=...
Exam(attempt_id, q, review) ==
    LET attempt == get_attempt(ATTEMPTS, attempt_id)
        answered(got, seen, all_qs) ==
            LET total_q == Len(all_qs)
                mode == mode_of(got.attempt.mode)
                cur_seq == _clamp(IF mode = "single"
                                  THEN (IF got.attempt.single_index = 0 THEN 1
                                        ELSE got.attempt.single_index)
                                  ELSE q, 1, total_q)
            IN  /\ ATTEMPTS' = [ATTEMPTS EXCEPT ![attempt_id] = got.attempt]
                /\ IF total_q <= 0
                   THEN /\ req' = Response("exam", attempt_id, "500", NoForm,
                                           <<got.exam_set>>, << >>)
                        /\ shown' = seen
                   ELSE IF mode = "full" /\ q # cur_seq
                   THEN /\ req' = Response("exam", attempt_id, "303", NoForm,
                                           <<got.exam_set>>, << >>)
                        /\ shown' = seen
                   ELSE /\ req' = Reviewed(Response("exam", attempt_id, "200", NoForm,
                                                    <<got.exam_set>>, <<all_qs>>),
                                           review, all_qs)
                        /\ shown' = Displayed(seen, attempt_id, all_qs)
        looked(got) ==
            answered(got, Observe(shown, attempt_id, got.exam_set),
                     _normalize_questions(
                         _ensure_full_set_for_single(got.attempt,
                                                     got.exam_set).questions))
    IN  /\ IF attempt = << >>
           THEN /\ req' = Response("exam", attempt_id, "404", NoForm, << >>, << >>)
                /\ UNCHANGED <<ATTEMPTS, shown>>
           ELSE looked(get_exam_set_for_attempt(attempt[1]))
        /\ pre' = << >>
        /\ UNCHANGED <<ATTEMPT_COUNTER, disk, _JSON_CACHE, call, ret, ret2, globalRng, heap>>

\* POST /exam/{attempt_id}/save: the page is saved before the exam set is
\* looked up
save_and_nav(attempt_id, form) ==
    LET attempt == get_attempt(ATTEMPTS, attempt_id)
        answered(got, all_qs) ==
            /\ ATTEMPTS' = [ATTEMPTS EXCEPT ![attempt_id] = got.attempt]
            /\ shown' = Observe(shown, attempt_id, got.exam_set)
            /\ pre' = <<attempt[1].answers>>
            /\ req' = Response("save", attempt_id,
                               IF Len(all_qs) <= 0 THEN "500" ELSE "303",
                               form, <<got.exam_set>>, << >>)
        looked(got) ==
            answered(got, _normalize_questions(
                              _ensure_full_set_for_single(got.attempt,
                                                          got.exam_set).questions))
    IN  /\ IF attempt = << >>
           THEN /\ req' = Response("save", attempt_id, "404", form, << >>, << >>)
                /\ pre' = << >>
                /\ UNCHANGED <<ATTEMPTS, shown>>
           ELSE looked(get_exam_set_for_attempt(
                           _save_page_answers_from_form(attempt[1], form)))
        /\ UNCHANGED <<ATTEMPT_COUNTER, disk, _JSON_CACHE, call, ret, ret2, globalRng, heap>>

\* the body of submit (timed_out FALSE) and of autosubmit (timed_out TRUE)
Finish(op, attempt_id, form, timed_out) ==
    LET attempt == get_attempt(ATTEMPTS, attempt_id)
        answered(g) ==
            /\ shown' = Observe(shown, attempt_id, g.view)
            /\ pre' = <<attempt[1].answers>>
            /\ IF g.raised # ""
               THEN /\ ATTEMPTS' = [ATTEMPTS EXCEPT ![attempt_id] = g.attempt]
                    /\ req' = Response(op, attempt_id, "raised", form,
                                       <<g.view>>, << >>)
               ELSE /\ ATTEMPTS' =
                          [ATTEMPTS EXCEPT ![attempt_id] =
                              [g.attempt EXCEPT !.submitted = TRUE,
                                                !.timed_out = timed_out,
                                                !.result = g.result]]
                    /\ req' = Response(op, attempt_id, "303", form,
                                       <<g.view>>, <<g.questions>>)
    IN  /\ IF attempt = << >>
           THEN /\ req' = Response(op, attempt_id, "404", form, << >>, << >>)
                /\ pre' = << >>
                /\ UNCHANGED <<ATTEMPTS, shown>>
           ELSE answered(grade_attempt(attempt[1], form))
        /\ UNCHANGED <<ATTEMPT_COUNTER, disk, _JSON_CACHE, call, ret, ret2, globalRng, heap>>

\* POST /exam/{attempt_id}/submit
submit(attempt_id, form) == Finish("submit", attempt_id, form, FALSE)

\* an autosubmit that leaves the attempt as a submit does
autosubmit_as_submit(attempt_id, form) == Finish("autosubmit", attempt_id, form, FALSE)

\* POST /exam/{attempt_id}/autosubmit
autosubmit(attempt_id, form) == Finish("autosubmit", attempt_id, form, TRUE)

\* a handler that reads the store and changes nothing
Answer(op, attempt_id, status) ==
    /\ req' = Response(op, attempt_id, status, NoForm, << >>, << >>)
    /\ pre' = << >>
    /\ UNCHANGED <<ATTEMPT_COUNTER, ATTEMPTS, disk, _JSON_CACHE, shown, call, ret,
                   ret2, globalRng, heap>>

\* GET /timeup/{attempt_id}
timeup(attempt_id) ==
    LET attempt == get_attempt(ATTEMPTS, attempt_id)
    IN  Answer("timeup", attempt_id,
               IF attempt = << >> \/ ~attempt[1].submitted \/ ~attempt[1].timed_out
               THEN "404" ELSE "200")

\* GET /result/{attempt_id}
result(attempt_id) ==
    LET attempt == get_attempt(ATTEMPTS, attempt_id)
    IN  Answer("result", attempt_id,
               IF attempt = << >> \/ ~attempt[1].submitted THEN "404" ELSE "200")

\* the minutes of an attempt without any
DefaultMinutes == 20

\* POST /restart/{attempt_id}
restart(attempt_id, seed, now) ==
    LET attempt == get_attempt(ATTEMPTS, attempt_id)
        a == attempt[1]
        answered(created) ==
            /\ ATTEMPT_COUNTER' = created.counter
            /\ ATTEMPTS' = created.attempts
            /\ _JSON_CACHE' = created.cache
            /\ req' = Response("restart", created.attempt_id,
                               IF created.raised # "" THEN "raised" ELSE "303",
                               NoForm, << >>, << >>)
    IN  IF attempt = << >>
        THEN Answer("restart", attempt_id, "303")
        ELSE /\ answered(create_attempt(
                             disk, ATTEMPT_COUNTER, ATTEMPTS, _JSON_CACHE,
                             IF a.minutes = 0 THEN DefaultMinutes ELSE a.minutes,
                             mode_of(a.mode),
                             IF a.single_index = 0 THEN 1 ELSE a.single_index,
                             seed, now))
             /\ globalRng' = seed
             /\ pre' = << >>
             /\ UNCHANGED <<disk, shown, call, ret, ret2, heap>>

(***************************************************************************)
(* The banks, the requests and the specification of the attempt store      *)
(***************************************************************************)

P1_Q(n) == <<"P", "1", "-", "Q">> \o int_chars(n)

\* a question in the plainest shape: four texts and an index
PlainQuestion(n) ==
    [id |-> P1_Q(n), stem |-> "stem", choices |-> StrChoices(Distinct4),
     correct_index |-> n % 4, explanation |-> "why"]

\* passage P1: nine questions in the shapes the normalizer recognizes, and
\* two it does not
BankP1 ==
    [id |-> <<"P", "1">>, title |-> " Title ", content |-> "text",
     questions |->
        <<[id |-> <<" ">> \o P1_Q(1), stem |-> " stem ",
           choices |-> StrChoices(<<" t1 ", "t2", "t3", "t4">>), correct_index |-> 2],
          [number |-> 2, prompt |-> "stem",
           choices |-> [shape |-> "dicts",
                        items |-> <<[label |-> "b", text |-> "t2"],
                                    [label |-> "A", text |-> "t1"],
                                    [label |-> "D", text |-> "t4"],
                                    [label |-> "c", text |-> "t3"]>>],
           correct |-> StrVal(" b ")],
          [stem |-> "stem",
           choices |-> [shape |-> "pairs",
                        items |-> <<<<"A", "t1">>, <<"B", "t2">>,
                                    <<"C", "t1">>, <<"D", "t3">>>>],
           correct |-> ListVal(<<"c", "A">>)],
          [id |-> P1_Q(4), question_type |-> "insert_sentence",
           sentence |-> "sentence", paragraph_label |-> "2",
           paragraph_text |-> "paragraph", correct_index |-> 1],
          [id |-> P1_Q(5), stem |-> "stem", choices |-> OtherChoices,
           correct_index |-> 7],
          PlainQuestion(6), PlainQuestion(7), PlainQuestion(8), PlainQuestion(9)>>]

\* passage P2: two questions, and no passage for it in the Q9 bank
BankP2 ==
    [passage_id |-> <<"2">>, text |-> "text",
     questions |-> <<[number |-> 1, stem |-> "stem",
                      choices |-> StrChoices(Repeated4), correct |-> StrVal("D")],
                     [_scalar |-> TRUE],
                     [id |-> <<"P", "2", "-", "Q", "2">>, stem |-> "stem",
                      choices |-> StrChoices(<<"t1", "t2", "t3">>)]>>]

\* the Q9 bank: the question of passage P1 under the id p01
BankQ9 ==
    [passages |->
        <<[id |-> <<"r", "e", "a", "d", "i", "n", "g", "-", "3">>,
           questions |-> <<PlainQuestion(3)>>],
          [passage_id |-> <<"p", "0", "1">>,
           questions |-> <<[number |-> 9, stem |-> "summary",
                            choices |-> StrChoices(Distinct4),
                            correct |-> ListVal(<<"B">>)]>>]>>]

GoodDisk == (MCQ_FILE :> [passages |-> <<BankP1, BankP2>>]) @@ (Q9_FILE :> BankQ9)
MainOnlyDisk == (MCQ_FILE :> [passages |-> <<BankP1, BankP2>>])
EmptyBankDisk == (MCQ_FILE :> [passages |-> << >>]) @@ (Q9_FILE :> BankQ9)
ScalarRootDisk == (MCQ_FILE :> [_scalar |-> TRUE])
\* an object whose "passages" is missing or is no list
NoPassagesDisk == (MCQ_FILE :> [title |-> "bank"]) @@ (Q9_FILE :> BankQ9)
NoDisk == << >>

Disks == {GoodDisk, MainOnlyDisk, EmptyBankDisk, ScalarRootDisk, NoPassagesDisk, NoDisk}

\* the attempts one run creates
MaxAttempts == 1

\* what random.randint returns: an even seed picks passage P1 and an odd
\* one passage P2
AttemptSeeds == {10, 7}

StartInputs ==
    [minutes : {20}, mode : {"full", "Single"}, single_index : {2, 12}, now : {1000}]

\* the ids of the paths: those of the attempts and one that is never created
PathIds == {int_chars(i) : i \in 1..(MaxAttempts + 1)}

Q1_ID == P1_Q(1)
Q2_ID == <<"P", "1", "-", "2">>

Field(qid, value) == <<ANS_PREFIX \o qid, value>>

\* the pages the requests of Spec post
Forms ==
    {NoForm,
     [cur |-> Q1_ID, items |-> <<Field(Q1_ID, "A")>>],
     [cur |-> Q1_ID, items |-> << >>]}

ExamPages == {1, 99}

Init ==
    /\ ATTEMPT_COUNTER = 0
    /\ ATTEMPTS = << >>
    /\ disk \in Disks
    /\ _JSON_CACHE = << >>
    /\ req = Response("none", << >>, "", NoForm, << >>, << >>)
    /\ pre = << >>
    /\ shown = << >>
    /\ call = << >>
    /\ ret = << >>
    /\ ret2 = << >>
    /\ globalRng = 0
    /\ heap = << >>

Next ==
    \/ /\ ATTEMPT_COUNTER < MaxAttempts
       /\ \E i \in StartInputs, seed \in AttemptSeeds :
              Start(i.minutes, i.mode, i.single_index, seed, i.now)
    \/ \E id \in PathIds : Passage(id)
    \/ \E id \in PathIds, q \in ExamPages, review \in BOOLEAN : Exam(id, q, review)
    \/ \E id \in PathIds, form \in Forms : save_and_nav(id, form)
    \/ \E id \in PathIds, form \in Forms : submit(id, form)
    \/ \E id \in PathIds, form \in Forms : autosubmit(id, form)
    \/ \E id \in PathIds : timeup(id)
    \/ \E id \in PathIds : result(id)
    \/ /\ ATTEMPT_COUNTER < MaxAttempts
       /\ \E id \in PathIds, seed \in AttemptSeeds : restart(id, seed, 1000)

Spec == Init /\ [][Next]_vars

\* the main bank is a document the loader must reject: its root is no
\* object, it has no list of passages, or the list is empty
BadBank(files) ==
    /\ MCQ_FILE \in DOMAIN files
    /\ \/ ~IsDict(files[MCQ_FILE])
       \/ ~Has(files[MCQ_FILE], "passages")
       \/ files[MCQ_FILE].passages = << >>

\* C13: the loader ends with an error and without an exam set on a bank
\* whose root is no object, whose passages are missing or no list, or whose
\* list of passages is empty; a create_attempt on such a bank ends with the
\* error and the store holds no attempt
C13_BadBankRejected ==
    BadBank(disk) =>
        /\ \A i \in 0..1 :
              LET res == _load_exam_set_from_passages(disk, _JSON_CACHE, "mcq", i)
              IN  res.raised # "" /\ res.exam_set.questions = << >>
        /\ \A seed \in AttemptSeeds :
              pick_full_exam_set_for_attempt(disk, _JSON_CACHE, seed).raised # ""
        /\ req.op = "start" => req.status = "raised"
        /\ DOMAIN ATTEMPTS = {}

\* POST /start on a bank with an empty list of passages has raised
C13_Witness ==
    /\ BadBank(disk)
    /\ IsDict(disk[MCQ_FILE])
    /\ Has(disk[MCQ_FILE], "passages")
    /\ req.op = "start"
    /\ req.status = "raised"
    /\ ATTEMPT_COUNTER = 1

\* the handlers that serve an attempt
ServingOps == {"passage", "exam", "save", "submit", "autosubmit", "timeup", "result"}

\* C14: a request for an attempt id that create_attempt never returned is
\* answered 404 by the passage, exam, save, submit, autosubmit, timeup and
\* result handlers and 303 (to the home page) by restart; the result of an
\* attempt that is not submitted is answered 404; none of these requests
\* changes the attempts of the store
C14_NotFoundOrNotAvailable ==
    [][/\ (req'.op \in ServingOps /\ req'.id \notin DOMAIN ATTEMPTS) =>
              (req'.status = "404" /\ ATTEMPTS' = ATTEMPTS)
       /\ (req'.op = "restart" /\ req'.id \notin DOMAIN ATTEMPTS') =>
              /\ req'.status = "303"
              /\ ATTEMPTS' = ATTEMPTS
              /\ ATTEMPT_COUNTER' = ATTEMPT_COUNTER
       /\ (/\ req'.op \in {"result", "timeup"}
           /\ req'.id \in DOMAIN ATTEMPTS
           /\ ~ATTEMPTS[req'.id].submitted) =>
              (req'.status = "404" /\ ATTEMPTS' = ATTEMPTS)]_vars

\* the result of an attempt that holds an answer and is not submitted was
\* requested
C14_Witness ==
    /\ req.op = "result"
    /\ req.id \in DOMAIN ATTEMPTS
    /\ ~ATTEMPTS[req.id].submitted
    /\ DOMAIN ATTEMPTS[req.id].answers # {}
    /\ req.status = "404"

\* C14 as stated: every request for an attempt id that create_attempt
\* never returned is answered 404
C14_EveryRequestNotFound ==
    [][(req'.op # "start" /\ req'.id \notin DOMAIN ATTEMPTS') =>
           req'.status = "404"]_vars

(***************************************************************************)
(* One attempt: the store as POST /start left it, and the requests on the  *)
(* attempt after that                                                      *)
(***************************************************************************)

\* the store after one successful POST /start on an empty store
Started(disks, inputs, seeds) ==
    /\ \E files \in disks, i \in inputs, seed \in seeds :
          LET stored(created) ==
                  /\ created.raised = ""
                  /\ disk = files
                  /\ ATTEMPT_COUNTER = created.counter
                  /\ ATTEMPTS = created.attempts
                  /\ _JSON_CACHE = created.cache
                  /\ globalRng = seed
                  /\ req = Response("start", created.attempt_id, "303", NoForm,
                                    << >>, << >>)
          IN  stored(create_attempt(files, 0, << >>, << >>, i.minutes,
                                    mode_of(i.mode), i.single_index, seed, i.now))
    /\ pre = << >>
    /\ shown = << >>
    /\ call = << >>
    /\ ret = << >>
    /\ ret2 = << >>
    /\ heap = << >>

InitAttempt == Started({GoodDisk, MainOnlyDisk}, StartInputs, AttemptSeeds)

\* the id of the attempt and one that was never created
AttemptPathIds == {<<"1">>, <<"2">>}

NextAttempt ==
    \/ \E id \in AttemptPathIds : Passage(id)
    \/ \E id \in AttemptPathIds, q \in ExamPages, review \in BOOLEAN : Exam(id, q, review)
    \/ \E id \in AttemptPathIds, form \in Forms : save_and_nav(id, form)
    \/ \E id \in AttemptPathIds, form \in Forms : submit(id, form)
    \/ \E id \in AttemptPathIds, form \in Forms : autosubmit(id, form)
    \/ \E id \in AttemptPathIds : timeup(id)
    \/ \E id \in AttemptPathIds : result(id)

SpecAttempt == InitAttempt /\ [][NextAttempt]_vars

\* the attempt of SpecAttempt and of SpecSave
TheId == <<"1">>
TheAttempt == ATTEMPTS[TheId]

SeqsOf(exam_set) ==
    [i \in DOMAIN exam_set.questions |->
        IF Has(MetaOf(exam_set.questions[i]), "seq")
        THEN MetaOf(exam_set.questions[i]).seq ELSE 0]

\* the sequence numbers are 1..N, each once
SeqExact(exam_set) ==
    LET seqs == SeqsOf(exam_set)
    IN  /\ Range(seqs) = 1..Len(seqs)
        /\ \A i, j \in DOMAIN seqs : seqs[i] = seqs[j] => i = j

\* what each assembler returns from the files of the state
Assembled ==
    {pick_exam_set(disk, _JSON_CACHE)}
        \cup {pick_exam_set_for_attempt(disk, _JSON_CACHE, seed) : seed \in AttemptSeeds}
        \cup {pick_full_exam_set_for_attempt(disk, _JSON_CACHE, seed) :
                  seed \in AttemptSeeds}

\* C11: the questions of every exam set an assembler returns (with and
\* without the Q9 merge), and of the raw and the shuffled exam set of every
\* attempt, carry the sequence numbers 1..N, each exactly once
C11_SeqIsOneToN ==
    /\ \A r \in Assembled : r.raised = "" => SeqExact(r.exam_set)
    /\ \A id \in DOMAIN ATTEMPTS :
          /\ SeqExact(ATTEMPTS[id].raw_exam_set)
          /\ ATTEMPTS[id].shuffled_exam_set # << >> =>
                 SeqExact(ATTEMPTS[id].shuffled_exam_set[1])

\* an attempt whose ten questions include the merged Q9 one has its shuffled
\* exam set cached, and the assembler without the merge returns nine
C11_Witness ==
    /\ Len(TheAttempt.raw_exam_set.questions) = FullSetMin
    /\ TheAttempt.shuffled_exam_set # << >>
    /\ TheAttempt.shuffled_exam_set[1] # TheAttempt.raw_exam_set
    /\ \E seed \in AttemptSeeds :
          /\ pick_exam_set_for_attempt(disk, _JSON_CACHE, seed).raised = ""
          /\ Len(pick_exam_set_for_attempt(disk, _JSON_CACHE, seed).exam_set.questions)
                 = FullSetMin - 1

(***************************************************************************)
(* One attempt and the pages saved on it                                   *)
(***************************************************************************)

\* the pages the requests of SpecSave post
SaveForms ==
    {[cur |-> Q1_ID, items |-> <<Field(Q1_ID, "A")>>],
     [cur |-> Q1_ID, items |-> << >>],
     [cur |-> Q1_ID, items |-> <<Field(Q1_ID, " b "), Field(Q2_ID, "A")>>],
     [cur |-> Q2_ID, items |-> <<Field(Q1_ID, "A"), <<<<"t", "a", "r", "g", "e", "t">>, "3">>>>],
     [cur |-> << >>, items |-> <<Field(Q2_ID, "A"), Field(Q2_ID, "C")>>],
     [cur |-> <<" ">> \o Q2_ID, items |-> <<Field(Q2_ID, "")>>]}

InitSave ==
    Started({GoodDisk},
            {[minutes |-> 20, mode |-> "full", single_index |-> 1, now |-> 1000]},
            {10})

NextSave ==
    \/ \E id \in AttemptPathIds, form \in SaveForms : save_and_nav(id, form)
    \/ \E id \in AttemptPathIds, form \in SaveForms : submit(id, form)
    \/ \E id \in AttemptPathIds, form \in SaveForms : autosubmit(id, form)

SpecSave == InitSave /\ [][NextSave]_vars

\* the last request saved a page on the attempt
PageSaved == req.op \in {"save", "submit", "autosubmit"} /\ pre # << >>

\* the answers of the page and the question it displayed, as the handler
\* read them from the form
PageAnswers == _extract_answers_from_formdata(req.form)
PageQid == chars_strip(req.form.cur)

\* C4: after a page is saved that has no answer for the question it
\* displayed, the attempt holds no answer for that question, and the answer
\* of every other question that is not on the page is what it was
C4_ClearsCurrentKeepsOthers ==
    (PageSaved /\ PageQid # << >> /\ PageQid \notin DOMAIN PageAnswers) =>
        /\ PageQid \notin DOMAIN TheAttempt.answers
        /\ \A k \in DOMAIN pre[1] \ (DOMAIN PageAnswers \cup {PageQid}) :
              /\ k \in DOMAIN TheAttempt.answers
              /\ TheAttempt.answers[k] = pre[1][k]

\* the attempt held answers for two questions, the page of the first had no
\* selection, and only the answer of the second is left
C4_Witness ==
    /\ PageSaved
    /\ req.op = "save"
    /\ PageQid = Q1_ID
    /\ PageAnswers = << >>
    /\ DOMAIN pre[1] = {Q1_ID, Q2_ID}
    /\ DOMAIN TheAttempt.answers = {Q2_ID}

\* C5: after a page is saved, the attempt holds every answer of the page,
\* whatever question the page displayed
C5_MergesWholePage ==
    PageSaved =>
        \A k \in DOMAIN PageAnswers :
            /\ k \in DOMAIN TheAttempt.answers
            /\ TheAttempt.answers[k] = PageAnswers[k]

(***************************************************************************)
(* _normalize_passage_schema on passage records of every shape             *)
(***************************************************************************)

\* the number of questions of a passage record
MaxNormQuestions == 2

\* raw questions: four texts with an index; labelled dicts with a letter;
\* pairs with a list of letters; a sentence insertion without choices; a
\* sentence insertion with options, no sentence and no valid answer;
\* choices that are no list and an index out of range; three texts; dicts
\* without any valid label; and an item that is no object
NormQuestions ==
    {PlainQuestion(6),
     [number |-> 2, prompt |-> "stem",
      choices |-> [shape |-> "dicts",
                   items |-> <<[label |-> "b", text |-> "t2"],
                               [label |-> "A", text |-> " t1 "],
                               [label |-> "D", text |-> "t4"],
                               [label |-> "c", text |-> "t3"]>>],
      correct |-> StrVal(" b ")],
     [stem |-> " stem ",
      choices |-> [shape |-> "pairs",
                   items |-> <<<<"A", "t1">>, <<"B", "t2">>,
                               <<"C", "t1">>, <<"D", "t3">>>>],
      correct |-> ListVal(<<"c", "A">>)],
     [id |-> P1_Q(4), question_type |-> "insert_sentence",
      sentence |-> "sentence", paragraph_label |-> "2",
      paragraph_text |-> "paragraph", correct_index |-> 1],
     [question_type |-> "insert_sentence", stem |-> "stem",
      options |-> StrChoices(Distinct4), correct |-> StrVal("e")],
     [id |-> P1_Q(5), stem |-> "stem", choices |-> OtherChoices,
      correct_index |-> 7],
     [id |-> P1_Q(7), stem |-> "stem", choices |-> StrChoices(<<"t1", "t2", "t3">>),
      correct |-> ListVal(<<"A">>)],
     [id |-> P1_Q(8), stem |-> "stem",
      choices |-> [shape |-> "dicts",
                   items |-> <<[label |-> "e", text |-> "t1"],
                               [label |-> "e", text |-> "t2"],
                               [label |-> "e", text |-> "t3"],
                               [label |-> "e", text |-> "t4"]>>]],
     [_scalar |-> TRUE]}

\* what a passage record holds besides its questions: an id, a title and a
\* content; a passage_id with blanks around it and a text; a blank passage
NormHeads ==
    {[id |-> <<"P", "1">>, title |-> " Title ", content |-> "text"],
     [passage_id |-> <<" ", "7", " ">>, text |-> "text"],
     [passage |-> " "]}

\* the passage records: every head without questions and with every list of
\* up to MaxNormQuestions questions
NormPassages ==
    NormHeads \cup
    {[questions |-> qs] @@ h : h \in NormHeads,
                               qs \in SeqsUpTo(NormQuestions, MaxNormQuestions)}

InitNormalize ==
    /\ Idle
    /\ call \in [p : NormPassages]
    /\ ret = << >>
    /\ ret2 = << >>

\* the stem as the one text it is: lines 247-251 put the sentence between
\* fixed texts
stem_text(stem) == IF Len(stem) = 1 THEN stem[1] ELSE stem[1] \o stem[2]

\* the dict _normalize_passage_schema returned (lines 287-292), as the
\* passage record a further call reads
normalized_record(p_norm) ==
    [p_norm EXCEPT !.questions =
        [i \in DOMAIN p_norm.questions |->
            [p_norm.questions[i] EXCEPT !.stem = stem_text(p_norm.questions[i].stem)]]]

NormalizeCall ==
    /\ ret = << >>
    /\ ret' = <<_normalize_passage_schema(call.p)>>
    /\ UNCHANGED <<ATTEMPT_COUNTER, ATTEMPTS, disk, _JSON_CACHE, req, pre, shown, call, ret2, globalRng, heap>>

\* the passage the first call returned is normalized once more
NormalizeAgain ==
    /\ ret # << >>
    /\ ret2 = << >>
    /\ ret2' = <<_normalize_passage_schema(normalized_record(ret[1].p))>>
    /\ UNCHANGED <<ATTEMPT_COUNTER, ATTEMPTS, disk, _JSON_CACHE, req, pre, shown, call, ret, globalRng, heap>>

NextNormalize == NormalizeCall \/ NormalizeAgain

SpecNormalize == InitNormalize /\ [][NextNormalize]_vars

\* C12: the passage returned for a passage that _normalize_passage_schema
\* returned equals it in every field: id, title, content and each question's
\* id, stem, choices, correct_index, explanation and meta
C12_NormalizeIdempotent ==
    ret2 # << >> => normalized_record(ret2[1].p) = normalized_record(ret[1].p)

\* the questions of a passage record that are objects, in order: the ones
\* the normalizer returns a question for
ObjectQuestions(p) ==
    IF Has(p, "questions") THEN SelectSeq(p.questions, IsDict) ELSE << >>

\* the value the normalizer takes the choices of a raw question from
SourceChoices(q) ==
    IF _as_str(GetText(q, "question_type")) = "insert_sentence"
    THEN IF ChoicesTruthy(q, "options") THEN q.options
         ELSE IF Has(q, "choices") THEN q.choices
         ELSE InsertDefaults
    ELSE IF Has(q, "choices") THEN q.choices ELSE OtherChoices

\* the raw question names the first choice as its answer
NamesFirstChoice(q) ==
    \/ Has(q, "correct_index") /\ q.correct_index = 0
    \/ Has(q, "correct") /\ q.correct.kind = "str" /\ strip_upper(q.correct.s) = "A"
    \/ /\ Has(q, "correct") /\ q.correct.kind = "list" /\ q.correct.items # << >>
       /\ q.correct.items[1] # None /\ strip_upper(q.correct.items[1]) = "A"

Warned(warnings, qid, what) ==
    \E k \in DOMAIN warnings : warnings[k] = <<qid, what>>

\* C15: the normalizer returns one question for each object of the
\* passage's questions; each has exactly 4 choices and a correct_index in
\* 0..3; when its choices are four blanks and the source choices were not
\* four texts, a "choices format not recognized" warning names its id; when
\* its correct_index is 0 and the source did not name the first choice, a
\* "missing/invalid correct answer" warning names its id
C15_FourChoicesOrWarned ==
    ret # << >> =>
        LET raw == ObjectQuestions(call.p)
            qs == ret[1].p.questions
        IN  /\ Len(qs) = Len(raw)
            /\ \A i \in DOMAIN qs :
                  /\ Len(qs[i].choices.items) = 4
                  /\ qs[i].correct_index \in 0..3
                  /\ qs[i].id # << >>
                  /\ (/\ qs[i].choices.items = <<"", "", "", "">>
                      /\ ~(SourceChoices(raw[i]).shape = "strs"
                             /\ Len(SourceChoices(raw[i]).items) = 4))
                        => Warned(ret[1].warnings, qs[i].id, "choices format not recognized")
                  /\ (qs[i].correct_index = 0 /\ ~NamesFirstChoice(raw[i]))
                        => Warned(ret[1].warnings, qs[i].id, "missing/invalid correct answer")

\* a question whose choices are no list and whose index is out of range
\* came back with four blanks, index 0 and both warnings
C15_Witness ==
    /\ ret # << >>
    /\ \E i \in DOMAIN ret[1].p.questions :
          LET q == ret[1].p.questions[i]
          IN  /\ q.choices.items = <<"", "", "", "">>
              /\ q.correct_index = 0
              /\ Has(ObjectQuestions(call.p)[i], "correct_index")
              /\ ObjectQuestions(call.p)[i].correct_index = 7
              /\ Warned(ret[1].warnings, q.id, "choices format not recognized")
              /\ Warned(ret[1].warnings, q.id, "missing/invalid correct answer")

(***************************************************************************)
(* The correct answer of a question and the order its choices are shown in *)
(***************************************************************************)

\* the letters of an answer of the review page
LettersOf(v) ==
    CASE v.kind = "str" -> {v.s}
      [] v.kind = "list" -> Range(v.items)
      [] OTHER -> {}

\* the answer the review page holds for a question
ReviewAnswer(answers, q) ==
    IF q.id \in DOMAIN answers THEN answers[q.id] ELSE NoneVal

\* the exam sets get_exam_set_for_attempt has returned: it caches each
ServedExamSets ==
    {ATTEMPTS[id].shuffled_exam_set[1] :
        id \in {a \in DOMAIN ATTEMPTS : ATTEMPTS[a].shuffled_exam_set # << >>}}

\* C19: in every exam set get_exam_set_for_attempt returned, the correct
\* letter list, correct_letter and correct_index of a question designate
\* the same choice text in the order the choices are shown in; and on the
\* exam page in review mode the correct answer of every question is the
\* letter set grade uses for it
C19_CorrectNeverStale ==
    /\ \A exam_set \in ServedExamSets :
          \A i \in DOMAIN exam_set.questions :
              LET q == exam_set.questions[i]
                  by_list == TextsUnder(q.choices, correct_list(q))
              IN  (q.choices # << >> /\ correct_list(q) # << >>) =>
                      /\ (Has(q, "correct_letter") /\ q.correct_letter.kind = "str") =>
                             TextsUnder(q.choices, <<q.correct_letter.s>>) = by_list
                      /\ (Has(q, "correct_index") /\ q.correct_index \in 0..3) =>
                             {q.choices[q.correct_index + 1][2]} = by_list
    /\ (req.op = "exam" /\ req.status = "200" /\ req.review_mode) =>
          \A i \in DOMAIN req.qs[1] :
              LettersOf(ReviewAnswer(req.correct_answers, req.qs[1][i]))
                  = _normalize_correct(req.qs[1][i])

(***************************************************************************)
(* The flags and the result of an attempt                                  *)
(***************************************************************************)

\* C20: in every state between two requests, every attempt has a result
\* exactly when its submitted flag is set, and its timed_out flag only when
\* submitted is set; the attempt a start or a restart has just created has
\* submitted and timed_out false, no result and no answers
C20_ResultIffSubmitted ==
    /\ \A id \in DOMAIN ATTEMPTS :
          /\ (ATTEMPTS[id].result # << >>) <=> ATTEMPTS[id].submitted
          /\ ATTEMPTS[id].timed_out => ATTEMPTS[id].submitted
    /\ (req.op \in {"start", "restart"} /\ req.status = "303"
            /\ req.id \in DOMAIN ATTEMPTS /\ req.id = int_chars(ATTEMPT_COUNTER)) =>
          /\ ~ATTEMPTS[req.id].submitted
          /\ ~ATTEMPTS[req.id].timed_out
          /\ ATTEMPTS[req.id].result = << >>
          /\ ATTEMPTS[req.id].answers = EmptyDict

\* an attempt with a saved answer was submitted by the timer: it is
\* submitted and timed out and has its result
C20_Witness ==
    /\ req.op = "autosubmit" /\ req.status = "303"
    /\ req.id \in DOMAIN ATTEMPTS
    /\ ATTEMPTS[req.id].submitted /\ ATTEMPTS[req.id].timed_out
    /\ ATTEMPTS[req.id].result # << >>
    /\ ATTEMPTS[req.id].answers # EmptyDict

(***************************************************************************)
(* _norm_pid on the spellings of a passage id                              *)
(***************************************************************************)

\* the most zeros a spelling puts before the number
MaxPidZeros == 2

PidNumbers == {1, 7, 20}

PidPrefixes ==
    {<< >>, <<"p">>, <<"P">>, READING_LOWER, READING_UPPER,
     <<"R", "e", "a", "d", "i", "n", "g", "-">>,
     READING_LOWER \o <<"p">>, READING_UPPER \o <<"P">>}

PidBlanks == {<< >>, <<" ">>}

Zeros(k) == [i \in 1..k |-> "0"]

\* the spellings of the passage numbers, each with its number
PidSpellings ==
    {[pid |-> lead \o prefix \o Zeros(k) \o int_chars(n) \o trail, number |-> n] :
        lead \in PidBlanks, prefix \in PidPrefixes, k \in 0..MaxPidZeros,
        n \in PidNumbers, trail \in PidBlanks}

\* ids that spell no passage number (number 0); two of them hold reading-
\* after their first character
PidOthers ==
    {[pid |-> cs, number |-> 0] :
        cs \in {<< >>, <<" ">>, <<"P">>, <<"x", "1">>, <<"p", "2", "a">>,
                READING_LOWER, <<"r", "e", "a", "d", "i", "n", "g">>,
                <<"t", "-">> \o READING_LOWER \o <<"3">>,
                READING_LOWER \o <<"r", "e", "a", "d">> \o READING_LOWER
                    \o <<"i", "n", "g", "-", "5">>}}

InitNormPid ==
    /\ Idle
    /\ call \in PidSpellings \cup PidOthers
    /\ ret = << >>
    /\ ret2 = << >>

\* the id _passage_to_exam_set gives the exam set of passage pid (lines
\* 348-349), as pick_full_exam_set_for_attempt normalizes it (lines 465-466)
exam_set_passage_id(pid) ==
    _norm_pid(_as_str_chars(IF _as_str_chars(pid) # << >>
                            THEN READING_LOWER \o _as_str_chars(pid)
                            ELSE <<"r", "e", "a", "d", "i", "n", "g">>))

\* the id as the Q9 lookup normalizes it in the secondary bank, and as the
\* assembler derives it from the exam set
NormPidCall ==
    /\ ret = << >>
    /\ ret' = <<[got |-> _norm_pid(call.pid), want |-> exam_set_passage_id(call.pid)]>>
    /\ UNCHANGED <<ATTEMPT_COUNTER, ATTEMPTS, disk, _JSON_CACHE, req, pre, shown, call, ret2, globalRng, heap>>

\* the normalized id is normalized once more
NormPidAgain ==
    /\ ret # << >>
    /\ ret2 = << >>
    /\ ret2' = <<_norm_pid(ret[1].got)>>
    /\ UNCHANGED <<ATTEMPT_COUNTER, ATTEMPTS, disk, _JSON_CACHE, req, pre, shown, call, ret, globalRng, heap>>

NextNormPid == NormPidCall \/ NormPidAgain

SpecNormPid == InitNormPid /\ [][NextNormPid]_vars

\* C27: every spelling of passage number n (bare, zero-padded, with p or P,
\* with reading- in any case, with blanks around it) normalizes to P
\* followed by n; for every id, the id the assembler derives from the exam
\* set of a passage with that id is the id the lookup in the secondary bank
\* gives a passage with that id; and normalizing a normalized id returns it
\* unchanged
C27_NormPidCanonical ==
    /\ (ret # << >> /\ call.number > 0) =>
          ret[1].got = <<"P">> \o int_chars(call.number)
    /\ (ret # << >> /\ ret[1].got # << >>) => ret[1].want = ret[1].got
    /\ ret2 # << >> => ret2[1] = ret[1].got

(***************************************************************************)
(* The two _ensure_seq on questions with and without a sequence number     *)
(***************************************************************************)

\* the longest list of questions numbered in SpecEnsureSeq
MaxSeqQuestions == 3

\* what a question holds for meta: no key, an empty dict, a dict without
\* seq, a seq of 5, a seq of 2 beside another key, and a seq of 0
SeqMetas ==
    {[id |-> "q"],
     [id |-> "q", meta |-> EmptyDict],
     [id |-> "q", meta |-> [question_type |-> "insert_sentence"]],
     [id |-> "q", meta |-> [seq |-> 5]],
     [id |-> "q", meta |-> [seq |-> 2, question_type |-> "insert_sentence"]],
     [id |-> "q", meta |-> [seq |-> 0]]}

InitEnsureSeq ==
    /\ Idle
    /\ call \in [questions : {WithIds(qs) : qs \in SeqsUpTo(SeqMetas, MaxSeqQuestions)}]
    /\ ret = << >>
    /\ ret2 = << >>

\* both functions on the same questions
EnsureSeqCall ==
    /\ ret = << >>
    /\ ret' = <<[services |-> _ensure_seq([questions |-> call.questions]).questions,
                 routes |-> routes_ensure_seq(call.questions)]>>
    /\ UNCHANGED <<ATTEMPT_COUNTER, ATTEMPTS, disk, _JSON_CACHE, req, pre, shown, call, ret2, globalRng, heap>>

\* each function on what it returned
EnsureSeqAgain ==
    /\ ret # << >>
    /\ ret2 = << >>
    /\ ret2' = <<[services |-> _ensure_seq([questions |-> ret[1].services]).questions,
                  routes |-> routes_ensure_seq(ret[1].routes)]>>
    /\ UNCHANGED <<ATTEMPT_COUNTER, ATTEMPTS, disk, _JSON_CACHE, req, pre, shown, call, ret, globalRng, heap>>

NextEnsureSeq == EnsureSeqCall \/ EnsureSeqAgain

SpecEnsureSeq == InitEnsureSeq /\ [][NextEnsureSeq]_vars

\* a question without the sequence number of its meta
WithoutSeq(q) == SetKey(q, "meta", DelKey(MetaOf(q), "seq"))

HasSeq(q) == Has(MetaOf(q), "seq")

\* the questions are those of the input in the same order, changed in
\* nothing but meta.seq
SameButSeq(out) ==
    /\ Len(out) = Len(call.questions)
    /\ \A i \in DOMAIN out : WithoutSeq(out[i]) = WithoutSeq(call.questions[i])

C28_SubmittedIsFinal ==
    [][\A id \in DOMAIN ATTEMPTS :
          ATTEMPTS[id].submitted =>
              /\ ATTEMPTS'[id].result = ATTEMPTS[id].result
              /\ ATTEMPTS'[id].timed_out = ATTEMPTS[id].timed_out
              /\ ATTEMPTS'[id].answers = ATTEMPTS[id].answers]_vars

\* what a submitting request with this form makes of the attempt
Finished(attempt, form, timed_out) ==
    LET stored(g) ==
            IF g.raised # "" THEN g.attempt
            ELSE [g.attempt EXCEPT !.submitted = TRUE, !.timed_out = timed_out,
                                   !.result = g.result]
    IN  stored(grade_attempt(attempt, form))

MaxCreates == 3

CreateDisks == {GoodDisk, NoDisk}

CreateInputs ==
    {[minutes |-> 20, mode |-> "full", single_index |-> 1, now |-> 1000],
     [minutes |-> 30, mode |-> "single", single_index |-> 2, now |-> 2000]}

CreatePathIds == {int_chars(i) : i \in 1..MaxCreates}

InitCreate ==
    /\ ATTEMPT_COUNTER = 0
    /\ ATTEMPTS = << >>
    /\ disk \in CreateDisks
    /\ _JSON_CACHE = << >>
    /\ req = Response("none", << >>, "", NoForm, << >>, << >>)
    /\ pre = << >>
    /\ shown = << >>
    /\ call = [before |-> << >>]
    /\ ret = << >>
    /\ ret2 = << >>
    /\ globalRng = 0
    /\ heap = << >>

\* one call of create_attempt: ret keeps the id of every call and what it
\* raised, call the store the call found
CreateCall(minutes, mode, single_index, seed, now) ==
    LET answered(created) ==
            /\ ATTEMPT_COUNTER' = created.counter
            /\ ATTEMPTS' = created.attempts
            /\ _JSON_CACHE' = created.cache
            /\ req' = Response("create", created.attempt_id,
                               IF created.raised # "" THEN "raised" ELSE "returned",
                               NoForm, << >>, << >>)
            /\ ret' = Append(ret, [id |-> created.attempt_id,
                                   raised |-> created.raised])
    IN  /\ Len(ret) < MaxCreates
        /\ answered(create_attempt(disk, ATTEMPT_COUNTER, ATTEMPTS, _JSON_CACHE,
                                   minutes, mode, single_index, seed, now))
        /\ call' = [before |-> ATTEMPTS]
        /\ globalRng' = seed
        /\ pre' = << >>
        /\ UNCHANGED <<disk, shown, ret2, heap>>

\* the files of the bank are put in place or taken away
BankWritten ==
    /\ disk' \in CreateDisks \ {disk}
    /\ UNCHANGED <<ATTEMPT_COUNTER, ATTEMPTS, _JSON_CACHE, req, pre, shown, call,
                   ret, ret2, globalRng, heap>>

NextCreate ==
    \/ \E i \in CreateInputs, seed \in AttemptSeeds :
           CreateCall(i.minutes, i.mode, i.single_index, seed, i.now)
    \/ BankWritten
    \/ \E id \in CreatePathIds : submit(id, [cur |-> Q1_ID, items |-> <<Field(Q1_ID, "A")>>])

SpecCreate == InitCreate /\ [][NextCreate]_vars

\* the ids the calls that returned have returned, in the order of the calls
ReturnedIds == SelectSeq(ret, LAMBDA r : r.raised = "")

\* the number an id spells
IdNumber(id) == CHOOSE n \in 0..(MaxCreates + 1) : int_chars(n) = id

\* C22: the ids create_attempt returns are strictly increasing, calls that
\* raised while the bank was loaded included, so no id is returned twice; a
\* call that returns stores its attempt under an id the store did not hold
\* and leaves every attempt the store held as it was, and a call that raises
\* leaves the store as it was
C22_IdsIncreaseStoreKept ==
    /\ \A i, j \in DOMAIN ret :
          i < j => IdNumber(ret[i].id) < IdNumber(ret[j].id)
    /\ \A i, j \in DOMAIN ReturnedIds :
          i # j => ReturnedIds[i].id # ReturnedIds[j].id
    /\ DOMAIN ATTEMPTS = {ReturnedIds[i].id : i \in DOMAIN ReturnedIds}
    /\ req.op = "create" =>
          /\ \A id \in DOMAIN call.before :
                id \in DOMAIN ATTEMPTS /\ ATTEMPTS[id] = call.before[id]
          /\ req.status = "returned" =>
                /\ req.id \notin DOMAIN call.before
                /\ DOMAIN ATTEMPTS = DOMAIN call.before \cup {req.id}
          /\ req.status = "raised" => ATTEMPTS = call.before

\* a call that raised, then a call that returned and whose attempt was
\* submitted, then a call that returned another id
C22_Witness ==
    /\ Len(ret) = 3
    /\ ret[1].raised # "" /\ ret[2].raised = "" /\ ret[3].raised = ""
    /\ ret[2].id = <<"2">> /\ ret[3].id = <<"3">>
    /\ req.op = "create"
    /\ ATTEMPTS[<<"2">>].submitted
    /\ ~ATTEMPTS[<<"3">>].submitted

(***************************************************************************)
(* Single mode: the one question graded                                    *)
(***************************************************************************)

\* the questions a single-mode handler works on: those of the view, or of
\* the default entry when the view has fewer than a full set
SingleQuestions(attempt, view) ==
    _normalize_questions(_ensure_full_set_for_single(attempt, view).questions)

\* C23: a submit or an autosubmit on an attempt in single mode grades one
\* question, the only one whose sequence number is the stored single_index
\* clamped to 1..N: the feedback has one entry, for that question, and the
\* total is the maximum points of that question, whatever answers the
\* attempt holds for other questions and whatever page was asked for before
C23_SingleGradesOneQuestion ==
    (/\ req.op \in {"submit", "autosubmit"}
     /\ req.status = "303"
     /\ ATTEMPTS[req.id].mode = "single") =>
        LET a == ATTEMPTS[req.id]
            checked(all, seq) ==
                /\ Cardinality({i \in DOMAIN all : _get_seq(all[i]) = seq}) = 1
                /\ Len(req.qs[1]) = 1
                /\ req.qs[1][1] \in Range(all)
                /\ _get_seq(req.qs[1][1]) = seq
                /\ Len(a.result[1].feedback) = 1
                /\ a.result[1].feedback[1].qid = req.qs[1][1].id
                /\ a.result[1].total = MaxPointsOf(req.qs[1][1])
                /\ a.result[1].total = a.result[1].feedback[1].max_points
            sized(all) == checked(all, _clamp(a.single_index, 1, Len(all)))
        IN  sized(SingleQuestions(a, req.view[1]))

\* an attempt in single mode whose index 12 was stored as 9 holds an answer
\* for the first question, saw page 1 asked for, and is submitted on its own
\* ten questions: the ninth is graded
C23_Witness ==
    /\ req.op = "submit" /\ req.status = "303"
    /\ ATTEMPTS[req.id].mode = "single"
    /\ ATTEMPTS[req.id].single_index = SingleIndexMax
    /\ Len(req.view[1].questions) = FullSetMin
    /\ Q1_ID \in DOMAIN ATTEMPTS[req.id].answers
    /\ shown[req.id].displayed # << >>
    /\ Len(req.qs[1]) = 1
    /\ _get_seq(req.qs[1][1]) = SingleIndexMax
    /\ req.qs[1][1].id # Q1_ID

(***************************************************************************)
(* The Q9 merge: the exam set of a passage with and without it             *)
(***************************************************************************)

Q9_ID == P1_Q(9)

\* the questions of the passage in the main bank: none with the id of the Q9
\* question, one, one whose id is padded with blanks, and two
MergeQuestions ==
    {<<PlainQuestion(1), PlainQuestion(2)>>,
     <<PlainQuestion(1), PlainQuestion(9)>>,
     <<[PlainQuestion(9) EXCEPT !.id = <<" ">> \o Q9_ID \o <<" ">>], PlainQuestion(2)>>,
     <<PlainQuestion(9), [PlainQuestion(9) EXCEPT !.stem = "other"]>>}

\* the ids the passage goes by in the main bank
MergePassageIds == {<<"1">>, <<"P", "1">>, <<"p", "0", "1">>}

Q9Passage(pid, questions) == [passage_id |-> pid, questions |-> questions]

Q9Question == [id |-> Q9_ID, stem |-> "summary", choices |-> StrChoices(Distinct4),
               correct_index |-> 1]

\* the Q9 banks: with the passage and its question, under two spellings of
\* its id, with the question without an id, with the passage without
\* questions, without the passage, without passages
Q9Banks ==
    {[passages |-> <<Q9Passage(<<"r", "e", "a", "d", "i", "n", "g", "-", "3">>,
                                <<PlainQuestion(3)>>),
                     Q9Passage(<<"p", "0", "1">>, <<Q9Question, PlainQuestion(4)>>)>>],
     [passages |-> <<Q9Passage(<<" ", "R", "E", "A", "D", "I", "N", "G", "-", "1">>,
                                <<Q9Question>>)>>],
     [passages |-> <<Q9Passage(<<"1">>, <<[number |-> 9, stem |-> "summary",
                                           choices |-> StrChoices(Distinct4),
                                           correct |-> ListVal(<<"B">>)]>>)>>],
     [passages |-> <<Q9Passage(<<"P", "1">>, << >>)>>],
     [passages |-> <<Q9Passage(<<"7">>, <<Q9Question>>)>>],
     [passages |-> << >>]}

\* the files: the main bank with the passage and passage P2, and a Q9 bank
\* or none
MergeDisks ==
    LET main(pid, qs) ==
            (MCQ_FILE :> [passages |-> <<[id |-> pid, content |-> "text",
                                          questions |-> qs], BankP2>>])
    IN  {main(pid, qs) : pid \in MergePassageIds, qs \in MergeQuestions}
            \cup {main(pid, qs) @@ (Q9_FILE :> bank) :
                      pid \in MergePassageIds, qs \in MergeQuestions, bank \in Q9Banks}

InitMerge ==
    /\ Idle
    /\ call \in [files : MergeDisks, seed : AttemptSeeds]
    /\ ret = << >>
    /\ ret2 = << >>

\* the exam set picked with the merge and without it, and what the lookup in
\* the Q9 bank returned for its passage
MergeCall ==
    LET looked(base) ==
            [full |-> pick_full_exam_set_for_attempt(call.files, << >>, call.seed),
             base |-> base,
             q9 |-> _load_q9_question_for_passage(
                        call.files, base.cache,
                        _norm_pid(_as_str_chars(base.exam_set.id)))]
    IN  /\ ret = << >>
        /\ ret' = <<looked(pick_exam_set_for_attempt(call.files, << >>, call.seed))>>
        /\ UNCHANGED <<ATTEMPT_COUNTER, ATTEMPTS, disk, _JSON_CACHE, req, pre, shown,
                       call, ret2, globalRng, heap>>

\* the exam set picked once more, from the payloads the first pick cached
MergeAgain ==
    /\ ret # << >>
    /\ ret2 = << >>
    /\ ret2' = <<pick_full_exam_set_for_attempt(call.files, ret[1].full.cache,
                                                call.seed)>>
    /\ UNCHANGED <<ATTEMPT_COUNTER, ATTEMPTS, disk, _JSON_CACHE, req, pre, shown,
                   call, ret, globalRng, heap>>

NextMerge == MergeCall \/ MergeAgain

SpecMerge == InitMerge /\ [][NextMerge]_vars

\* the positions of the questions of that id
Holding(questions, qid) ==
    {i \in DOMAIN questions : _as_str_chars(questions[i].id) = qid}

\* the id under which the Q9 question is merged
MergedId(q9) ==
    assemble_question(q9.q[1], _norm_pid(_as_str_chars(ret[1].base.exam_set.id))
                                   \o <<"-", "9">>).id

\* the exam set with the merge is the one without it, or that with one
\* question of the id appended; without a Q9 question it is the one without
\* the merge and the lookup left a warning
MergeAppendsOnce(full, base, q9) ==
    IF q9.q = << >>
    THEN /\ full = base
         /\ q9.warnings # << >>
    ELSE /\ full.id = base.id /\ full.title = base.title /\ full.passage = base.passage
         /\ IF Holding(base.questions, MergedId(q9)) # {}
            THEN full.questions = base.questions
            ELSE /\ Len(full.questions) = Len(base.questions) + 1
                 /\ SubSeq(full.questions, 1, Len(base.questions)) = base.questions
                 /\ Holding(full.questions, MergedId(q9)) = {Len(full.questions)}
         /\ Holding(full.questions, MergedId(q9)) # {}

\* C26 as stated: the merge appends the Q9 question once at the end unless
\* the exam set holds a question of its id, a missing Q9 bank or passage
\* leaves a warning and the exam set unmerged, and the merged exam set never
\* holds two questions of that id
C26_MergeNeverTwo ==
    (ret # << >> /\ ret[1].full.raised = "") =>
        /\ MergeAppendsOnce(ret[1].full.exam_set, ret[1].base.exam_set, ret[1].q9)
        /\ ret[1].q9.q # << >> =>
               Cardinality(Holding(ret[1].full.exam_set.questions,
                                   MergedId(ret[1].q9))) <= 1

\* C26 as the code has it: the merged exam set holds the id as often as the
\* exam set did, and once when the exam set did not hold it; picking again
\* returns the same exam set
C26_MergeAddsNoSecond ==
    (ret # << >> /\ ret[1].full.raised = "") =>
        /\ MergeAppendsOnce(ret[1].full.exam_set, ret[1].base.exam_set, ret[1].q9)
        /\ ret[1].q9.q # << >> =>
               Cardinality(Holding(ret[1].full.exam_set.questions,
                                   MergedId(ret[1].q9)))
                   = Max(1, Cardinality(Holding(ret[1].base.exam_set.questions,
                                                MergedId(ret[1].q9))))
        /\ ret2 # << >> => ret2[1].exam_set = ret[1].full.exam_set

\* the main bank holds the id of the Q9 question once and nothing is
\* appended
C26_Witness ==
    /\ ret # << >> /\ ret2 # << >>
    /\ ret[1].q9.q # << >>
    /\ MergedId(ret[1].q9) = Q9_ID
    /\ Cardinality(Holding(ret[1].base.exam_set.questions, Q9_ID)) = 1
    /\ ret[1].full.exam_set.questions = ret[1].base.exam_set.questions
    /\ Len(ret[1].full.exam_set.questions) = 2

(***************************************************************************)
(* The store as objects: which dict each statement writes to               *)
(*                                                                         *)
(* heap is the sequence of the dicts allocated so far and an address is a  *)
(* position in it.  ATTEMPTS and _JSON_CACHE hold addresses here, an       *)
(* attempt holds the addresses of its raw exam set, of its shuffled exam   *)
(* set and of its answers, an exam set those of its questions and a        *)
(* question that of its meta.  A statement that assigns to a key of a dict *)
(* changes the dict at that address, for every holder of the address.      *)
(***************************************************************************)

\* the attempts one run creates in SpecHeap
MaxHeapAttempts == 2

QuestionValue(h, a) ==
    IF Has(h[a], "meta") THEN [h[a] EXCEPT !.meta = h[h[a].meta]] ELSE h[a]

ExamSetValue(h, a) ==
    [h[a] EXCEPT !.questions = [i \in DOMAIN @ |-> QuestionValue(h, @[i])]]

\* the attempt at address a as get_attempt's caller reads it
AttemptValue(h, a) ==
    [h[a] EXCEPT !.raw_exam_set = ExamSetValue(h, @),
                 !.shuffled_exam_set = IF @ = << >> THEN << >>
                                       ELSE <<ExamSetValue(h, @[1])>>,
                 !.answers = h[@]]

\* the payloads _JSON_CACHE holds
CacheValue(h, cache) == [path \in DOMAIN cache |-> h[cache[path]]]

\* new dicts for questions and their metas: what the loops of
\* _passage_to_exam_set (lines 312-342) and copy.deepcopy build
RECURSIVE fresh_questions(_, _)
fresh_questions(h, qs) ==
    IF qs = << >> THEN [heap |-> h, at |-> << >>]
    ELSE LET placed(done, q) ==
                 IF Has(q, "meta")
                 THEN [heap |-> done.heap \o <<q.meta,
                                              [q EXCEPT !.meta = Len(done.heap) + 1]>>,
                       at |-> Append(done.at, Len(done.heap) + 2)]
                 ELSE [heap |-> Append(done.heap, q),
                       at |-> Append(done.at, Len(done.heap) + 1)]
         IN  placed(fresh_questions(h, SubSeq(qs, 1, Len(qs) - 1)), qs[Len(qs)])

\* a new exam set dict over new question dicts (lines 348-353, and
\* shuffle_service.py line 14)
fresh_exam_set(h, exam_set) ==
    LET placed(qs) ==
            [heap |-> Append(qs.heap, [exam_set EXCEPT !.questions = qs.at]),
             at |-> Len(qs.heap) + 1]
    IN  placed(fresh_questions(h, exam_set.questions))

\* _ensure_seq of exam_services.py on the exam set at an address: q["meta"]
\* and meta["seq"] are assigned in the dicts the exam set refers to
RECURSIVE ensure_seq_from(_, _, _)
ensure_seq_from(h, questions, i) ==
    IF i > Len(questions) THEN h
    ELSE LET q == h[questions[i]]
             numbered ==
                 IF ~Has(q, "meta")
                 THEN Append([h EXCEPT ![questions[i]] = SetKey(q, "meta", Len(h) + 1)],
                             SetKey(EmptyDict, "seq", i))
                 ELSE IF Has(h[q.meta], "seq") THEN h
                 ELSE [h EXCEPT ![q.meta] = SetKey(@, "seq", i)]
         IN  ensure_seq_from(numbered, questions, i + 1)

_ensure_seq_at(h, a) == ensure_seq_from(h, h[a].questions, 1)

\* _read_json on the heap: json.loads builds the payload once for a path
read_json_at(h, cache, payloads, path) ==
    IF path \in DOMAIN cache \/ path \notin DOMAIN payloads
    THEN [heap |-> h, cache |-> cache]
    ELSE [heap |-> Append(h, payloads[path]),
          cache |-> SetKey(cache, path, Len(h) + 1)]

\* an attempt that shares the answers dict of the attempt stored before it
create_attempt_shared_answers(files, h, counter, attempts, cache, i, seed) ==
    LET attempt_id == int_chars(counter + 1)
        stored(raw, hs) ==
            LET answers_at == IF counter > 0 THEN hs[attempts[int_chars(counter)]].answers
                              ELSE Len(hs) + 1
                h1 == Append(_ensure_seq_at(hs, raw), EmptyDict)
                h2 == Append(h1, [new_attempt(i.minutes, i.mode, i.single_index, seed,
                                              i.now, NoExamSet)
                                    EXCEPT !.raw_exam_set = raw,
                                           !.answers = answers_at])
            IN  [heap |-> h2, attempts |-> SetKey(attempts, attempt_id, Len(h2))]
        assembled(picked, read) ==
            LET made == fresh_exam_set(read.heap, picked.exam_set)
            IN  [raised |-> picked.raised, attempt_id |-> attempt_id,
                 counter |-> counter + 1, cache |-> read.cache]
                    @@ stored(made.at, made.heap)
        cached(picked) ==
            assembled(picked,
                      read_json_at(read_json_at(h, cache, picked.cache, MCQ_FILE).heap,
                                   read_json_at(h, cache, picked.cache, MCQ_FILE).cache,
                                   picked.cache, Q9_FILE))
    IN  cached(pick_full_exam_set_for_attempt(files, CacheValue(h, cache), seed))

\* create_attempt on the heap, for a bank that loads: the payloads read are
\* cached, the exam set and its questions are new dicts (lines 312-353,
\* 489-508), numbered in place (lines 510, 556), and the attempt is a new
\* dict with a new answers dict (lines 558-571)
create_attempt_at(files, h, counter, attempts, cache, i, seed) ==
    LET attempt_id == int_chars(counter + 1)
        stored(raw, hs) ==
            LET h1 == Append(_ensure_seq_at(hs, raw), EmptyDict)
                h2 == Append(h1, [new_attempt(i.minutes, i.mode, i.single_index, seed,
                                              i.now, NoExamSet)
                                    EXCEPT !.raw_exam_set = raw,
                                           !.answers = Len(h1)])
            IN  [heap |-> h2, attempts |-> SetKey(attempts, attempt_id, Len(h2))]
        assembled(picked, read) ==
            LET made == fresh_exam_set(read.heap, picked.exam_set)
            IN  [raised |-> picked.raised, attempt_id |-> attempt_id,
                 counter |-> counter + 1, cache |-> read.cache]
                    @@ stored(made.at, made.heap)
        cached(picked) ==
            assembled(picked,
                      read_json_at(read_json_at(h, cache, picked.cache, MCQ_FILE).heap,
                                   read_json_at(h, cache, picked.cache, MCQ_FILE).cache,
                                   picked.cache, Q9_FILE))
    IN  cached(pick_full_exam_set_for_attempt(files, CacheValue(h, cache), seed))

\* the choices and the correct letters of the shuffle, assigned to the
\* questions of the copy (shuffle_service.py lines 33-34)
RECURSIVE shuffle_written(_, _, _, _)
shuffle_written(h, questions, shuffled, i) ==
    IF i > Len(questions) THEN h
    ELSE shuffle_written([h EXCEPT ![questions[i]].choices = shuffled[i].choices,
                                   ![questions[i]].correct = shuffled[i].correct],
                         questions, shuffled, i + 1)

\* get_exam_set_for_attempt on the heap (lines 576-598): the cached exam
\* set, or a deep copy of the raw one, shuffled and numbered in place and
\* stored in the attempt
get_exam_set_for_attempt_at(h, a) ==
    IF h[a].shuffled_exam_set # << >>
    THEN [heap |-> h, at |-> h[a].shuffled_exam_set[1]]
    ELSE LET seed == IF h[a].shuffle_seed = 0 THEN 1 ELSE h[a].shuffle_seed
             raw == ExamSetValue(h, h[a].raw_exam_set)
             kept(copy, hc) ==
                 [heap |-> [_ensure_seq_at(hc, copy) EXCEPT
                               ![a].shuffled_exam_set = <<copy>>],
                  at |-> copy]
             copied(c) ==
                 kept(c.at, shuffle_written(c.heap, c.heap[c.at].questions,
                                            shuffle_exam_set(raw, seed).questions, 1))
         IN  copied(fresh_exam_set(h, raw))

\* _save_page_answers_from_form on the heap (lines 78-98): the keys of the
\* answers dict of the attempt are assigned and deleted
save_page_answers_at(h, a, form) ==
    [h EXCEPT ![h[a].answers] =
        _save_page_answers_from_form(AttemptValue(h, a), form).answers]

HeapInputs == {[minutes |-> 20, mode |-> "full", single_index |-> 1, now |-> 1000]}

HeapIds == {int_chars(i) : i \in 1..MaxHeapAttempts}

HeapForms == {[cur |-> Q1_ID, items |-> <<Field(Q1_ID, "A")>>],
              [cur |-> Q1_ID, items |-> << >>]}

InitHeap ==
    /\ ATTEMPT_COUNTER = 0
    /\ ATTEMPTS = << >>
    /\ disk = GoodDisk
    /\ _JSON_CACHE = << >>
    /\ req = Response("none", << >>, "", NoForm, << >>, << >>)
    /\ pre = << >>
    /\ shown = << >>
    /\ call = << >>
    /\ ret = << >>
    /\ ret2 = << >>
    /\ globalRng = 0
    /\ heap = << >>

\* POST /start
HeapStart(i, seed) ==
    LET answered(created) ==
            /\ created.raised = ""
            /\ ATTEMPT_COUNTER' = created.counter
            /\ ATTEMPTS' = created.attempts
            /\ _JSON_CACHE' = created.cache
            /\ heap' = created.heap
            /\ req' = Response("start", created.attempt_id, "303", NoForm, << >>, << >>)
    IN  /\ ATTEMPT_COUNTER < MaxHeapAttempts
        /\ answered(create_attempt_at(disk, heap, ATTEMPT_COUNTER, ATTEMPTS,
                                      _JSON_CACHE, i, seed))
        /\ globalRng' = seed
        /\ UNCHANGED <<disk, pre, shown, call, ret, ret2>>

\* GET /passage/{attempt_id}: the exam set of the attempt is looked up
HeapPassage(attempt_id) ==
    /\ attempt_id \in DOMAIN ATTEMPTS
    /\ heap' = get_exam_set_for_attempt_at(heap, ATTEMPTS[attempt_id]).heap
    /\ req' = Response("passage", attempt_id, "200", NoForm, << >>, << >>)
    /\ UNCHANGED <<ATTEMPT_COUNTER, ATTEMPTS, disk, _JSON_CACHE, pre, shown, call,
                   ret, ret2, globalRng>>

\* POST /exam/{attempt_id}/save: the page is saved, then the exam set is
\* looked up
HeapSave(attempt_id, form) ==
    /\ attempt_id \in DOMAIN ATTEMPTS
    /\ heap' = get_exam_set_for_attempt_at(
                   save_page_answers_at(heap, ATTEMPTS[attempt_id], form),
                   ATTEMPTS[attempt_id]).heap
    /\ req' = Response("save", attempt_id, "303", NoForm, << >>, << >>)
    /\ UNCHANGED <<ATTEMPT_COUNTER, ATTEMPTS, disk, _JSON_CACHE, pre, shown, call,
                   ret, ret2, globalRng>>

\* POST /exam/{attempt_id}/submit and /autosubmit: the exam set is looked
\* up, the page is saved, and submitted, timed_out and result are assigned
\* in the attempt (lines 681-688, 745-752)
HeapFinish(op, attempt_id, form, timed_out) ==
    LET a == ATTEMPTS[attempt_id]
        stored(h, g) ==
            [h EXCEPT ![a].submitted = TRUE, ![a].timed_out = timed_out,
                      ![a].result = g.result]
        saved(h) == stored(h, grade_attempt(AttemptValue(h, a), NoForm))
    IN  /\ attempt_id \in DOMAIN ATTEMPTS
        /\ heap' = saved(save_page_answers_at(
                             get_exam_set_for_attempt_at(heap, a).heap, a, form))
        /\ req' = Response(op, attempt_id, "303", NoForm, << >>, << >>)
        /\ UNCHANGED <<ATTEMPT_COUNTER, ATTEMPTS, disk, _JSON_CACHE, pre, shown, call,
                       ret, ret2, globalRng>>

NextHeap ==
    \/ \E i \in HeapInputs, seed \in AttemptSeeds : HeapStart(i, seed)
    \/ \E id \in HeapIds : HeapPassage(id)
    \/ \E id \in HeapIds, form \in HeapForms : HeapSave(id, form)
    \/ \E id \in HeapIds, form \in HeapForms : HeapFinish("submit", id, form, FALSE)
    \/ \E id \in HeapIds, form \in HeapForms : HeapFinish("autosubmit", id, form, TRUE)

SpecHeap == InitHeap /\ [][NextHeap]_vars

\* C29: a request on one attempt leaves every other attempt as it was, its
\* answers, its raw and its shuffled exam set, its flags and its result, and
\* leaves the cached payloads as they were read from the files; the raw exam
\* set of an attempt that is created is what its passage yields from the
\* files, whatever was done on the attempts created before it
C29_AttemptsIsolated ==
    [][/\ \A other \in DOMAIN ATTEMPTS :
             other # req'.id =>
                 AttemptValue(heap', ATTEMPTS'[other])
                     = AttemptValue(heap, ATTEMPTS[other])
       /\ \A path \in DOMAIN _JSON_CACHE :
             /\ path \in DOMAIN _JSON_CACHE'
             /\ heap'[_JSON_CACHE'[path]] = heap[_JSON_CACHE[path]]
       /\ \A path \in DOMAIN _JSON_CACHE' :
             heap'[_JSON_CACHE'[path]] = disk[path]
       /\ req'.op = "start" =>
             ExamSetValue(heap', heap'[ATTEMPTS'[req'.id]].raw_exam_set)
                 = pick_full_exam_set_for_attempt(
                       disk, << >>, heap'[ATTEMPTS'[req'.id]].shuffle_seed).exam_set]_vars

\* two attempts of the same passage: the first is submitted with an answer
\* and its exam set shuffled, the second was created after that, holds no
\* answer and has a page saved on it
C29_Witness ==
    /\ DOMAIN ATTEMPTS = {<<"1">>, <<"2">>}
    /\ heap[ATTEMPTS[<<"1">>]].shuffle_seed = heap[ATTEMPTS[<<"2">>]].shuffle_seed
    /\ heap[ATTEMPTS[<<"1">>]].submitted
    /\ heap[heap[ATTEMPTS[<<"1">>]].answers] # EmptyDict
    /\ heap[ATTEMPTS[<<"1">>]].shuffled_exam_set # << >>
    /\ req.op = "save" /\ req.id = <<"2">>
    /\ heap[heap[ATTEMPTS[<<"2">>]].answers] = EmptyDict
    /\ ~heap[ATTEMPTS[<<"2">>]].submitted

====
